---- MODULE Spec2Model ----
(***************************************************************************)
(* Offline inventory reconciliation: InventoryListService over            *)
(* StorageService over AsyncStorage.                                       *)
(*                                                                         *)
(* Every async method is cut at its awaits.  A call runs synchronously up  *)
(* to its first await (the *Call action), the native side then carries out *)
(* the request (StorageDone, StorageFail, NetInfoDone) and the method's    *)
(* continuation runs later (the *Resume actions).  Other calls and         *)
(* continuations may run between any two of these steps.                   *)
(***************************************************************************)
EXTENDS Integers, Sequences, FiniteSets, TLC

(***************************************************************************)
(* Bounds of the model.                                                    *)
(***************************************************************************)
\* scans of one article are followed up to this many past its expected quantity
MaxOver == 1
\* calls that may be in flight at once
MaxTasks == 2
\* the clock runs from 0 to this
MaxClock == 1
\* calls made, in the runs where calls overlap
MaxCalls == 4
\* requests the native side fails
MaxFaults == 1

(***************************************************************************)
(* The provisioned data: two inventory lists that share an article.        *)
(***************************************************************************)
Item(a, d, q) ==
    [articleNumber |-> a, description |-> d, expectedQuantity |-> q, imagePath |-> a]

ListL1 ==
    [id |-> "L1", name |-> "Warehouse", description |-> "bolts and nuts",
     items |-> <<Item("100", "bolt", 2), Item("200", "nut", 1)>>]

ListL2 ==
    [id |-> "L2", name |-> "Van", description |-> "bolts",
     items |-> <<Item("100", "bolt", 1)>>]

ProvisionedLists == <<ListL1, ListL2>>

ListIds == {"L1", "L2"}

\* ids a caller may pass to setCurrentList: the stored ones and an unknown one
CallIds == ListIds \cup {"L9"}

\* barcodes the scanner may deliver: the articles and an unknown one
Barcodes == {"100", "200", "999"}

(***************************************************************************)
(* STORAGE_KEYS and the keys built from them.                              *)
(***************************************************************************)
INVENTORY_LISTS == "inventory_lists"

SCANNED_ITEMS == "scanned_items"

MISSING_ITEMS == "missing_items"

LAST_SYNC == "last_sync"

ScannedKeyShared(listId) == SCANNED_ITEMS

ScannedKey(listId) == SCANNED_ITEMS \o "_" \o listId

MissingKeyShared(listId) == MISSING_ITEMS \o "_L1"
MissingKey(listId) == MISSING_ITEMS \o "_" \o listId

AllKeys ==
    {INVENTORY_LISTS, LAST_SYNC}
        \cup {ScannedKey(l) : l \in ListIds} \cup {MissingKey(l) : l \in ListIds}

(***************************************************************************)
(* Optional values: <<>> is null/undefined/absent, <<v>> is the value v.   *)
(***************************************************************************)
None == <<>>

Some(v) == <<v>>

(***************************************************************************)
(* Map<string, number>: the entries in insertion order.                    *)
(***************************************************************************)
NewMap == <<>>

MapKeys(m) == {m[i][1] : i \in 1..Len(m)}

MapHas(m, k) == k \in MapKeys(m)

\* Map.get: the value, or undefined (None)
MapGet(m, k) ==
    IF MapHas(m, k)
    THEN Some(m[CHOOSE i \in 1..Len(m) : m[i][1] = k][2])
    ELSE None

\* Map.set: an existing key keeps its place, a new key goes last
MapSet(m, k, v) ==
    IF MapHas(m, k)
    THEN [i \in 1..Len(m) |-> IF m[i][1] = k THEN <<k, v>> ELSE m[i]]
    ELSE Append(m, <<k, v>>)

\* `x || 0` for x a number or undefined
OrZero(x) == IF x = None \/ x[1] = 0 THEN 0 ELSE x[1]

\* the count a ledger holds for an article: this.scannedItems.get(a) || 0
Count(m, a) == OrZero(MapGet(m, a))

(***************************************************************************)
(* Plain objects and JSON.  An object lists its own keys with the          *)
(* integer-like ones first, ascending, and then the others in insertion    *)
(* order; JSON.stringify and JSON.parse keep that order.                   *)
(***************************************************************************)
KeyNum(k) ==
    CASE k = "100" -> 100
      [] k = "200" -> 200
      [] k = "999" -> 999
      [] OTHER -> -1

IsIndexKey(k) == KeyNum(k) >= 0

RECURSIVE SortByNum(_)
SortByNum(S) ==
    IF S = {} THEN <<>>
    ELSE LET m == CHOOSE x \in S : \A y \in S : KeyNum(x) <= KeyNum(y)
         IN  <<m>> \o SortByNum(S \ {m})

ObjectFromEntriesFirst(m) == IF m = <<>> THEN <<>> ELSE <<m[1]>>

\* Object.fromEntries(map)
ObjectFromEntries(m) ==
    LET idx  == SortByNum({k \in MapKeys(m) : IsIndexKey(k)})
        rest == SelectSeq([i \in 1..Len(m) |-> m[i][1]], LAMBDA k : ~IsIndexKey(k))
        keys == idx \o rest
    IN  [i \in 1..Len(keys) |-> <<keys[i], MapGet(m, keys[i])[1]>>]

\* new Map(Object.entries(obj)): the object's entries in its key order
MapFromObject(obj) == obj


(***************************************************************************)
(* StorageService: what each method hands to AsyncStorage and what it      *)
(* makes of the answer.  An answer is [ok, val]: ok is FALSE when the      *)
(* native call rejected (or the stored text did not parse), val is the     *)
(* stored value or None for a key that is not there.                       *)
(***************************************************************************)
Answer(ok, val) == [ok |-> ok, val |-> val]

\* saveScannedItems: JSON.stringify(Object.fromEntries(items))
ScannedItemsText(items) == ObjectFromEntries(items)

GetInventoryListsProvisioned(ans) == ProvisionedLists

\* getInventoryLists: lists ? JSON.parse(lists) : [], and [] in the catch
GetInventoryListsResult(ans) ==
    IF ans.ok /\ ans.val # None THEN ans.val[1] ELSE <<>>

GetScannedItemsEmpty(ans) == NewMap

\* getScannedItems: items ? new Map(Object.entries(JSON.parse(items))) : new Map(),
\* and new Map() in the catch
GetScannedItemsResult(ans) ==
    IF ans.ok /\ ans.val # None THEN MapFromObject(ans.val[1]) ELSE NewMap

\* StorageService.getMissingItems: items ? JSON.parse(items) : [], and [] in the
\* catch
GetMissingItemsResult(ans) ==
    IF ans.ok /\ ans.val # None THEN ans.val[1] ELSE <<>>

\* getLastSyncTimestamp: the stored string or null, and null in the catch
GetLastSyncTimestampResult(ans) == IF ans.ok THEN ans.val ELSE None

SaveResultSwallowed(ans) == "void"

\* a save method resolves when its write was carried out; its catch block logs
\* the error and throws it again
SaveResult(ans) == IF ans.ok THEN "void" ELSE "StorageFailure"

ReadResultRethrown(ans) == IF ans.ok THEN "returned" ELSE "StorageFailure"

\* a get method returns in either case: its catch block logs the error and
\* returns the default
ReadResult(ans) == "returned"

(***************************************************************************)
(* InventoryListService: the pure parts of its methods.                    *)
(***************************************************************************)
FindListFirst(lists, listId) ==
    IF \E i \in 1..Len(lists) : lists[i].id = listId THEN Some(lists[1]) ELSE None

\* lists.find(list => list.id === listId) || null
FindList(lists, listId) ==
    IF \E i \in 1..Len(lists) : lists[i].id = listId
    THEN Some(lists[CHOOSE i \in 1..Len(lists) :
                      /\ lists[i].id = listId
                      /\ \A j \in 1..(i - 1) : lists[j].id # listId])
    ELSE None

\* loadInventoryLists: localLists, or [] when NetInfo.fetch() threw
LoadInventoryListsResult(localLists, net) ==
    IF net = "error" THEN <<>> ELSE localLists

\* currentList.items.find(item => item.articleNumber === barcode)
HasItem(list, barcode) ==
    \E i \in 1..Len(list.items) : list.items[i].articleNumber = barcode

NotRecordedAsRecorded == "true"

\* scanItem: `return false`, nothing was recorded
NotRecorded == "false"

NextCountTwice(currentCount) == currentCount + 2

\* scanItem: currentCount + 1
NextCount(currentCount) == currentCount + 1

MissingOfClamped(item, scanned) ==
    IF scanned > item.expectedQuantity THEN 0 ELSE item.expectedQuantity - scanned

\* getMissingItems: item.expectedQuantity - (scannedItems.get(articleNumber) || 0)
MissingOf(item, scanned) == item.expectedQuantity - scanned

NoReportOneEntry == <<"none">>

\* getMissingItems: `return []`, no list is current
NoReport == <<>>

MissingItemsNone(list, items) == <<>>

\* getMissingItems: one MissingItem per item of the list, in the list's order
MissingItems(list, items) ==
    [i \in 1..Len(list.items) |->
        [articleNumber    |-> list.items[i].articleNumber,
         description      |-> list.items[i].description,
         expectedQuantity |-> list.items[i].expectedQuantity,
         imagePath        |-> list.items[i].imagePath,
         scannedQuantity  |-> Count(items, list.items[i].articleNumber),
         missing          |-> MissingOf(list.items[i],
                                        Count(items, list.items[i].articleNumber))]]

SyncResultAlwaysTrue(ans) == "true"

SyncResultAlwaysFalse(ans) == "false"

\* syncWithServer: `return true` after updateLastSyncTimestamp() resolved, `return
\* false` from the catch block when it rejected
SyncResult(ans) == IF ans.ok THEN "true" ELSE "false"

SyncProceedsAlways(net) == net # "error"

\* syncWithServer: goes on past `if (!networkState.isConnected) return false`
SyncProceeds(net) == net = "connected"

ClearedReportOneEntry == <<"none">>

\* clearCurrentListData: the [] of saveMissingItems(this.currentList.id, [])
ClearedReport == <<>>

ClearedItemsKept(items) == items

\* clearCurrentListData: this.scannedItems.clear()
ClearedItems(items) == NewMap

(***************************************************************************)
(* The ledgers handed to saveScannedItems directly.                        *)
(***************************************************************************)
\* the highest count in such a ledger
MaxCount == 1

\* article numbers: two integer-like ones and one that is not
LedgerKeys == {"100", "200", "abc"}

\* the entries of a Map as a set
Entries(m) == {m[i] : i \in 1..Len(m)}

\* every Map over those keys with each count 0 or MaxCount, in every insertion
\* order
Ledgers ==
    {m \in UNION {[1..n -> LedgerKeys \X {0, MaxCount}] : n \in 0..Cardinality(LedgerKeys)} :
        \A i, j \in 1..Len(m) : i # j => m[i][1] # m[j][1]}

(***************************************************************************)
(* State.                                                                  *)
(***************************************************************************)
VARIABLES
    store,          \* AsyncStorage: key -> None, or Some(the stored value)
    currentList,    \* InventoryListService.currentList: None or Some(list)
    scannedItems,   \* InventoryListService.scannedItems
    tasks,          \* the calls in flight or returned and not yet collected
    queue,          \* AsyncStorage requests not yet carried out, oldest first
    now,            \* the clock new Date() reads
    recorded,       \* history: scanItem calls that returned true, per list and
                    \* article, since the list's data was last cleared
    loadedFor,      \* history: the list id scannedItems was last loaded for
    ledgerAt,       \* history: for a list that was switched away from and is not
                    \* back yet, scannedItems as it was at the switch
    overlap,        \* how many calls the callers let be in flight at once
    calls,          \* history: the calls made so far, where calls overlap
    hist,           \* history: the calls made since no call was in flight, in order
    base,           \* history: the service and the ledgers as they were then,
                    \* where calls overlap
    faults,         \* history: the requests the native side has failed
    network,        \* the device: "connected" or "offline"
    restored,       \* history: the connection has come back with a list current
                    \* and no syncWithServer call has been made since
    screenItems     \* InventoryScreen: the scannedItems state of the component

vars == <<store, currentList, scannedItems, tasks, queue, now,
          recorded, loadedFor, ledgerAt, overlap, calls, hist, base, faults,
          network, restored, screenItems>>

\* what no step of the service's methods changes: the histories, the device's
\* connection and the screen
history == <<overlap, calls, hist, base, faults, network, restored, screenItems>>

Slots == 1..MaxTasks

CurrentId == IF currentList = None THEN "" ELSE currentList[1].id

\* what a call finds when it starts: the current list, the in-memory ledger, the
\* stored ledger of the current list, the whole store, the call made before it
\* and whether that call found counts in the in-memory ledger
Snapshot ==
    [list  |-> currentList,
     items |-> scannedItems,
     store |-> store,
     saved |-> IF currentList = None THEN None ELSE store[ScannedKey(currentList[1].id)],
     after |-> IF hist = <<>> THEN "" ELSE hist[Len(hist)][1],
     full  |-> IF hist = <<>> THEN FALSE ELSE hist[Len(hist)][3]]

NoSnapshot ==
    [list |-> None, items |-> NewMap, store |-> <<>>, saved |-> None, after |-> "",
     full |-> FALSE]

Idle ==
    [op |-> "idle", pc |-> "idle", arg |-> "", lists |-> <<>>, net |-> "", resp |-> None,
     result |-> "none", ret |-> <<>>, target |-> "", pre |-> NoSnapshot]

\* a call of method op that has reached the await named pc
Running(op, pc, arg) ==
    [op |-> op, pc |-> pc, arg |-> arg, lists |-> <<>>, net |-> "", resp |-> None,
     result |-> "none", ret |-> <<>>, target |-> "", pre |-> NoSnapshot]

\* what the caller sees once the promise settles
Settle(task, result) == [task EXCEPT !.pc = "done", !.resp = None, !.result = result]

Request(t, op, key, val) == [task |-> t, op |-> op, key |-> key, val |-> val]

\* a free slot, the lowest one
Free(t) ==
    /\ t <= overlap
    /\ tasks[t].op = "idle"
    /\ \A u \in Slots : u < t => tasks[u].op # "idle"

\* no call is in flight and every outcome has been collected
Quiet == \A t \in Slots : tasks[t].op = "idle"

\* no call is in flight
Settled == \A t \in Slots : tasks[t].pc \in {"idle", "done"}

\* a ledger as the mapping it is: article -> count, 0 for an article it lacks
Counts(m) == [a \in Barcodes |-> Count(m, a)]

\* the ledger stored for a list, as getScannedItems reads it
SavedItems(listId) == GetScannedItemsResult(Answer(TRUE, store[ScannedKey(listId)]))

\* the service and the stored ledgers, ledgers as mappings
Situation ==
    [cur  |-> CurrentId,
     mem  |-> Counts(scannedItems),
     disk |-> [l \in ListIds |-> Counts(SavedItems(l))]]

NoSituation ==
    [cur  |-> "",
     mem  |-> Counts(NewMap),
     disk |-> [l \in ListIds |-> Counts(NewMap)]]

\* a call of op(arg) is made in slot t
Begin(t, op, arg) ==
    /\ Free(t)
    /\ overlap > 1 => calls < MaxCalls
    /\ calls' = IF overlap > 1 THEN calls + 1 ELSE calls
    /\ LET call == <<op, arg, scannedItems # NewMap>>
       IN  hist' = IF Quiet THEN <<call>> ELSE Append(hist, call)
    /\ base' = IF Quiet /\ overlap > 1 THEN Situation ELSE base
    /\ restored' = IF op = "syncWithServer" THEN FALSE ELSE restored
    /\ UNCHANGED <<overlap, faults, network, screenItems>>

NoRecord == [l \in ListIds |-> [a \in Barcodes |-> 0]]

InitWith(n) ==
    /\ store = [k \in AllKeys |->
                  IF k = INVENTORY_LISTS THEN Some(ProvisionedLists) ELSE None]
    /\ currentList = None
    /\ scannedItems = NewMap
    /\ tasks = [t \in Slots |-> Idle]
    /\ queue = <<>>
    /\ now = 0
    /\ recorded = NoRecord
    /\ loadedFor = None
    /\ ledgerAt = [l \in ListIds |-> None]
    /\ overlap = n
    /\ calls = 0
    /\ hist = <<>>
    /\ base = NoSituation
    /\ faults = 0
    /\ network = "connected"
    /\ restored = FALSE
    /\ screenItems = NewMap

(***************************************************************************)
(* AsyncStorage and NetInfo: the native side.                              *)
(***************************************************************************)
OldestAny(i) == TRUE

OldestFirst(i) == i = 1

\* requests for one key are carried out in the order they were issued, and
\* clear() concerns every key
Oldest(i) ==
    \A j \in 1..(i - 1) :
        /\ queue[j].key # queue[i].key
        /\ queue[j].op # "clear"
        /\ queue[i].op # "clear"

Without(q, i) == SubSeq(q, 1, i - 1) \o SubSeq(q, i + 1, Len(q))

\* AsyncStorage carries out request i: getItem reads the key, setItem replaces
\* it, clear removes every key
StorageDone(i) ==
    /\ UNCHANGED history
    /\ i \in 1..Len(queue)
    /\ Oldest(i)
    /\ LET r == queue[i] IN
        /\ store' = CASE r.op = "setItem" -> [store EXCEPT ![r.key] = r.val]
                       [] r.op = "clear"   -> [k \in AllKeys |-> None]
                       [] OTHER            -> store
        /\ tasks' = [tasks EXCEPT ![r.task].resp =
                        Some(Answer(TRUE, IF r.op = "getItem" THEN store[r.key] ELSE None))]
    /\ queue' = Without(queue, i)
    /\ UNCHANGED <<currentList, scannedItems, now, recorded, loadedFor, ledgerAt>>

\* AsyncStorage rejects request i (or the text read does not parse)
StorageFail(i) ==
    /\ faults < MaxFaults
    /\ faults' = faults + 1
    /\ UNCHANGED <<overlap, calls, hist, base, network, restored, screenItems>>
    /\ i \in 1..Len(queue)
    /\ Oldest(i)
    /\ tasks' = [tasks EXCEPT ![queue[i].task].resp = Some(Answer(FALSE, None))]
    /\ queue' = Without(queue, i)
    /\ UNCHANGED <<store, currentList, scannedItems, now, recorded, loadedFor, ledgerAt>>

\* NetInfo.fetch() settles: connected, offline, or it throws
NetInfoDone(t, net) ==
    /\ net = "error" => faults < MaxFaults
    /\ faults' = IF net = "error" THEN faults + 1 ELSE faults
    /\ UNCHANGED <<overlap, calls, hist, base, network, restored, screenItems>>
    /\ tasks[t].pc = "netFetch"
    /\ tasks[t].resp = None
    /\ tasks' = [tasks EXCEPT ![t].resp = Some(net)]
    /\ UNCHANGED <<store, currentList, scannedItems, queue, now, recorded, loadedFor,
                   ledgerAt>>

\* time passes
Tick ==
    /\ UNCHANGED history
    /\ now < MaxClock
    /\ now' = now + 1
    /\ UNCHANGED <<store, currentList, scannedItems, tasks, queue, recorded, loadedFor,
                   ledgerAt>>

\* the device loses or regains its connection
ConnectivityChange ==
    /\ network' = IF network = "connected" THEN "offline" ELSE "connected"
    /\ restored' = (restored \/ (network = "offline" /\ currentList # None))
    /\ UNCHANGED <<store, currentList, scannedItems, tasks, queue, now, recorded,
                   loadedFor, ledgerAt, overlap, calls, hist, base, faults, screenItems>>

(***************************************************************************)
(* setCurrentList(listId)                                                  *)
(***************************************************************************)
\* up to loadInventoryLists' await of storageService.getInventoryLists()
SetCurrentListCall(t, listId) ==
    /\ Begin(t, "setCurrentList", listId)
    /\ tasks' = [tasks EXCEPT ![t] =
                    [Running("setCurrentList", "getLists", listId) EXCEPT !.pre = Snapshot]]
    /\ queue' = Append(queue, Request(t, "getItem", INVENTORY_LISTS, None))
    /\ UNCHANGED <<store, currentList, scannedItems, now, recorded, loadedFor, ledgerAt>>

\* loadInventoryLists has localLists and awaits NetInfo.fetch()
SetCurrentListLists(t) ==
    /\ UNCHANGED history
    /\ tasks[t].op = "setCurrentList"
    /\ tasks[t].pc = "getLists"
    /\ tasks[t].resp # None
    /\ tasks' = [tasks EXCEPT ![t].pc = "netFetch",
                              ![t].lists = GetInventoryListsResult(tasks[t].resp[1]),
                              ![t].resp = None]
    /\ UNCHANGED <<store, currentList, scannedItems, queue, now, recorded, loadedFor,
                   ledgerAt>>

\* loadInventoryLists returns; currentList is assigned; the ledger is asked for
SetCurrentListFind(t) ==
    /\ UNCHANGED history
    /\ tasks[t].op = "setCurrentList"
    /\ tasks[t].pc = "netFetch"
    /\ tasks[t].resp # None
    /\ LET lists == LoadInventoryListsResult(tasks[t].lists, tasks[t].resp[1])
           found == FindList(lists, tasks[t].arg)
       IN  /\ currentList' = found
           /\ ledgerAt' = IF currentList # None /\ found # currentList
                            /\ CurrentId \in ListIds
                          THEN [ledgerAt EXCEPT ![CurrentId] = Some(scannedItems)]
                          ELSE ledgerAt
           /\ IF found # None
              THEN /\ tasks' = [tasks EXCEPT ![t].pc = "getLedger", ![t].resp = None]
                   /\ queue' = Append(queue,
                                  Request(t, "getItem", ScannedKey(tasks[t].arg), None))
              ELSE /\ tasks' = [tasks EXCEPT ![t] = Settle(tasks[t], "void")]
                   /\ queue' = queue
    /\ UNCHANGED <<store, scannedItems, now, recorded, loadedFor>>

\* this.scannedItems = await this.storageService.getScannedItems(listId)
SetCurrentListLedger(t) ==
    /\ UNCHANGED history
    /\ tasks[t].op = "setCurrentList"
    /\ tasks[t].pc = "getLedger"
    /\ tasks[t].resp # None
    /\ scannedItems' = GetScannedItemsResult(tasks[t].resp[1])
    /\ loadedFor' = Some(tasks[t].arg)
    /\ tasks' = [tasks EXCEPT ![t] = Settle(tasks[t], "void")]
    /\ UNCHANGED <<store, currentList, queue, now, recorded, ledgerAt>>

(***************************************************************************)
(* scanItem(barcode)                                                       *)
(***************************************************************************)
\* the barcode is an article of the current list
Accepts(barcode) == currentList # None /\ HasItem(currentList[1], barcode)

\* the model stops following an article this far past its expected quantity
ScanCap(barcode) ==
    LET items == currentList[1].items
        i == CHOOSE j \in 1..Len(items) : items[j].articleNumber = barcode
    IN  items[i].expectedQuantity + MaxOver

\* up to the await of saveScannedItems; a barcode that is not accepted returns false
ScanItemCall(t, barcode) ==
    /\ Begin(t, "scanItem", barcode)
    /\ IF Accepts(barcode)
       THEN /\ Count(scannedItems, barcode) < ScanCap(barcode)
            /\ recorded[CurrentId][barcode] < ScanCap(barcode)
            /\ scannedItems' = MapSet(scannedItems, barcode,
                                      NextCount(Count(scannedItems, barcode)))
            /\ queue' = Append(queue,
                           Request(t, "setItem", ScannedKey(CurrentId),
                                   Some(ScannedItemsText(scannedItems'))))
            /\ tasks' = [tasks EXCEPT ![t] =
                            [Running("scanItem", "saveLedger", barcode)
                                EXCEPT !.target = CurrentId, !.pre = Snapshot]]
       ELSE /\ tasks' = [tasks EXCEPT ![t] =
                            [Settle(Running("scanItem", "done", barcode), NotRecorded)
                                EXCEPT !.target = CurrentId, !.pre = Snapshot]]
            /\ UNCHANGED <<scannedItems, queue>>
    /\ UNCHANGED <<store, currentList, now, recorded, loadedFor, ledgerAt>>

\* saveScannedItems settled: return true, or its error goes on to the caller
ScanItemSaved(t) ==
    /\ UNCHANGED history
    /\ tasks[t].op = "scanItem"
    /\ tasks[t].pc = "saveLedger"
    /\ tasks[t].resp # None
    /\ IF tasks[t].resp[1].ok
       THEN /\ tasks' = [tasks EXCEPT ![t] = Settle(tasks[t], "true")]
            /\ recorded' = [recorded EXCEPT ![tasks[t].target][tasks[t].arg] = @ + 1]
       ELSE /\ tasks' = [tasks EXCEPT ![t] = Settle(tasks[t], "StorageFailure")]
            /\ recorded' = recorded
    /\ UNCHANGED <<store, currentList, scannedItems, queue, now, loadedFor, ledgerAt>>

(***************************************************************************)
(* getMissingItems()                                                       *)
(***************************************************************************)
\* up to the await of saveMissingItems; [] when no list is current
GetMissingItemsCall(t) ==
    /\ Begin(t, "getMissingItems", "")
    /\ IF currentList = None
       THEN /\ tasks' = [tasks EXCEPT ![t] =
                            [Settle(Running("getMissingItems", "done", ""), "returned")
                                EXCEPT !.ret = NoReport, !.pre = Snapshot]]
            /\ queue' = queue
       ELSE LET missingItems == MissingItems(currentList[1], scannedItems) IN
            /\ tasks' = [tasks EXCEPT ![t] =
                            [Running("getMissingItems", "saveReport", "")
                                EXCEPT !.target = CurrentId, !.ret = missingItems,
                                       !.pre = Snapshot]]
            /\ queue' = Append(queue,
                           Request(t, "setItem", MissingKey(CurrentId), Some(missingItems)))
    /\ UNCHANGED <<store, currentList, scannedItems, now, recorded, loadedFor, ledgerAt>>

\* saveMissingItems settled: return missingItems, or its error goes on to the caller
GetMissingItemsSaved(t) ==
    /\ UNCHANGED history
    /\ tasks[t].op = "getMissingItems"
    /\ tasks[t].pc = "saveReport"
    /\ tasks[t].resp # None
    /\ tasks' = [tasks EXCEPT ![t] =
                    Settle(tasks[t], IF tasks[t].resp[1].ok THEN "returned"
                                     ELSE "StorageFailure")]
    /\ UNCHANGED <<store, currentList, scannedItems, queue, now, recorded, loadedFor,
                   ledgerAt>>

(***************************************************************************)
(* syncWithServer()                                                        *)
(***************************************************************************)
HasCurrentListAlways == TRUE

\* syncWithServer: `if (this.currentList)`, evaluated once the probe has answered
HasCurrentList == currentList # None

\* up to the await of NetInfo.fetch()
SyncWithServerCall(t) ==
    /\ Begin(t, "syncWithServer", "")
    /\ tasks' = [tasks EXCEPT ![t] =
                    [Running("syncWithServer", "netFetch", "") EXCEPT !.pre = Snapshot]]
    /\ UNCHANGED <<store, currentList, scannedItems, queue, now, recorded, loadedFor,
                   ledgerAt>>

\* the connectivity answer is in: false unless connected with a current list, and
\* then updateLastSyncTimestamp() is awaited; a throw of fetch() is caught: false
SyncWithServerNet(t) ==
    /\ UNCHANGED history
    /\ tasks[t].op = "syncWithServer"
    /\ tasks[t].pc = "netFetch"
    /\ tasks[t].resp # None
    /\ LET net == tasks[t].resp[1] IN
       IF net # "error" /\ SyncProceeds(net) /\ HasCurrentList
       THEN /\ tasks' = [tasks EXCEPT ![t].pc = "saveStamp", ![t].resp = None,
                                      ![t].net = net]
            /\ queue' = Append(queue, Request(t, "setItem", LAST_SYNC, Some(now)))
       ELSE /\ tasks' = [tasks EXCEPT ![t] = [Settle(tasks[t], "false") EXCEPT !.net = net]]
            /\ queue' = queue
    /\ UNCHANGED <<store, currentList, scannedItems, now, recorded, loadedFor, ledgerAt>>

\* updateLastSyncTimestamp settled: true, or its error is caught: false
SyncWithServerSaved(t) ==
    /\ UNCHANGED history
    /\ tasks[t].op = "syncWithServer"
    /\ tasks[t].pc = "saveStamp"
    /\ tasks[t].resp # None
    /\ tasks' = [tasks EXCEPT ![t] = Settle(tasks[t], SyncResult(tasks[t].resp[1]))]
    /\ UNCHANGED <<store, currentList, scannedItems, queue, now, recorded, loadedFor,
                   ledgerAt>>

(***************************************************************************)
(* clearCurrentListData()                                                  *)
(***************************************************************************)
\* up to the await of saveScannedItems(currentList.id, new Map())
ClearCurrentListDataCall(t) ==
    /\ Begin(t, "clearCurrentListData", "")
    /\ IF currentList # None
       THEN /\ scannedItems' = ClearedItems(scannedItems)
            /\ queue' = Append(queue,
                           Request(t, "setItem", ScannedKey(CurrentId),
                                   Some(ScannedItemsText(NewMap))))
            /\ tasks' = [tasks EXCEPT ![t] =
                            [Running("clearCurrentListData", "saveLedger", "")
                                EXCEPT !.target = CurrentId, !.pre = Snapshot]]
            /\ recorded' = [recorded EXCEPT ![CurrentId] = [a \in Barcodes |-> 0]]
       ELSE /\ tasks' = [tasks EXCEPT ![t] =
                            [Settle(Running("clearCurrentListData", "done", ""), "void")
                                EXCEPT !.pre = Snapshot]]
            /\ UNCHANGED <<scannedItems, queue, recorded>>
    /\ UNCHANGED <<store, currentList, now, loadedFor, ledgerAt>>

\* the ledger write settled: its error goes on to the caller; otherwise
\* this.currentList.id is read again (a TypeError when currentList is null by now)
\* and saveMissingItems(id, []) is awaited
ClearCurrentListDataLedger(t) ==
    /\ UNCHANGED history
    /\ tasks[t].op = "clearCurrentListData"
    /\ tasks[t].pc = "saveLedger"
    /\ tasks[t].resp # None
    /\ IF ~tasks[t].resp[1].ok
       THEN /\ tasks' = [tasks EXCEPT ![t] = Settle(tasks[t], "StorageFailure")]
            /\ queue' = queue
       ELSE IF currentList = None
       THEN /\ tasks' = [tasks EXCEPT ![t] = Settle(tasks[t], "TypeError")]
            /\ queue' = queue
       ELSE /\ tasks' = [tasks EXCEPT ![t].pc = "saveReport", ![t].resp = None]
            /\ queue' = Append(queue,
                           Request(t, "setItem", MissingKey(CurrentId),
                                   Some(ClearedReport)))
    /\ UNCHANGED <<store, currentList, scannedItems, now, recorded, loadedFor, ledgerAt>>

\* the report write settled
ClearCurrentListDataReport(t) ==
    /\ UNCHANGED history
    /\ tasks[t].op = "clearCurrentListData"
    /\ tasks[t].pc = "saveReport"
    /\ tasks[t].resp # None
    /\ tasks' = [tasks EXCEPT ![t] =
                    Settle(tasks[t], IF tasks[t].resp[1].ok THEN "void"
                                     ELSE "StorageFailure")]
    /\ UNCHANGED <<store, currentList, scannedItems, queue, now, recorded, loadedFor,
                   ledgerAt>>

(***************************************************************************)
(* StorageService called directly, and loadInventoryLists() on its own.    *)
(***************************************************************************)
\* a caller's call that leaves the service and the store as they are for now
Pending(t, task, request) ==
    /\ tasks' = [tasks EXCEPT ![t] = [task EXCEPT !.pre = Snapshot]]
    /\ queue' = Append(queue, request)
    /\ UNCHANGED <<store, currentList, scannedItems, now, recorded, loadedFor, ledgerAt>>

\* the await of a save method is over
WriteSettled(t, op) ==
    /\ UNCHANGED history
    /\ tasks[t].op = op
    /\ tasks[t].pc = "write"
    /\ tasks[t].resp # None
    /\ tasks' = [tasks EXCEPT ![t] = Settle(tasks[t], SaveResult(tasks[t].resp[1]))]
    /\ UNCHANGED <<store, currentList, scannedItems, queue, now, recorded, loadedFor,
                   ledgerAt>>

\* the await of a get method is over: value is what the method makes of the answer
ReadSettled(t, op, value) ==
    /\ UNCHANGED history
    /\ tasks[t].op = op
    /\ tasks[t].pc = "read"
    /\ tasks[t].resp # None
    /\ tasks' = [tasks EXCEPT ![t] =
                    [Settle(tasks[t], ReadResult(tasks[t].resp[1])) EXCEPT !.ret = value]]
    /\ UNCHANGED <<store, currentList, scannedItems, queue, now, recorded, loadedFor,
                   ledgerAt>>

\* saveInventoryLists(lists), up to the await of setItem
SaveInventoryListsCall(t, lists) ==
    /\ Begin(t, "saveInventoryLists", "")
    /\ Pending(t, [Running("saveInventoryLists", "write", "") EXCEPT !.lists = lists],
               Request(t, "setItem", INVENTORY_LISTS, Some(lists)))

SaveInventoryListsSettled(t) == WriteSettled(t, "saveInventoryLists")

\* updateLastSyncTimestamp(), up to the await of setItem
UpdateLastSyncTimestampCall(t) ==
    /\ Begin(t, "updateLastSyncTimestamp", "")
    /\ Pending(t, [Running("updateLastSyncTimestamp", "write", "") EXCEPT !.ret = Some(now)],
               Request(t, "setItem", LAST_SYNC, Some(now)))

UpdateLastSyncTimestampSettled(t) == WriteSettled(t, "updateLastSyncTimestamp")

\* clearAllData(), up to the await of AsyncStorage.clear()
ClearAllDataCall(t) ==
    /\ Begin(t, "clearAllData", "")
    /\ Pending(t, Running("clearAllData", "write", ""), Request(t, "clear", "*", None))

ClearAllDataSettled(t) == WriteSettled(t, "clearAllData")

\* getInventoryLists(), up to the await of getItem
GetInventoryListsCall(t) ==
    /\ Begin(t, "getInventoryLists", "")
    /\ Pending(t, Running("getInventoryLists", "read", ""),
               Request(t, "getItem", INVENTORY_LISTS, None))

GetInventoryListsSettled(t) ==
    ReadSettled(t, "getInventoryLists", GetInventoryListsResult(tasks[t].resp[1]))

\* saveScannedItems(listId, items), up to the await of setItem; the task keeps
\* the Map it was given
SaveScannedItemsCall(t, listId, items) ==
    /\ Begin(t, "saveScannedItems", listId)
    /\ Pending(t, [Running("saveScannedItems", "write", listId) EXCEPT !.lists = items],
               Request(t, "setItem", ScannedKey(listId), Some(ScannedItemsText(items))))

SaveScannedItemsSettled(t) == WriteSettled(t, "saveScannedItems")

\* getScannedItems(listId), up to the await of getItem
GetScannedItemsCall(t, listId) ==
    /\ Begin(t, "getScannedItems", listId)
    /\ Pending(t, Running("getScannedItems", "read", listId),
               Request(t, "getItem", ScannedKey(listId), None))

GetScannedItemsSettled(t) ==
    ReadSettled(t, "getScannedItems", GetScannedItemsResult(tasks[t].resp[1]))

\* StorageService.getMissingItems(listId), up to the await of getItem
StoredMissingItemsCall(t, listId) ==
    /\ Begin(t, "storedMissingItems", listId)
    /\ Pending(t, Running("storedMissingItems", "read", listId),
               Request(t, "getItem", MissingKey(listId), None))

StoredMissingItemsSettled(t) ==
    ReadSettled(t, "storedMissingItems", GetMissingItemsResult(tasks[t].resp[1]))

\* getLastSyncTimestamp(), up to the await of getItem
GetLastSyncTimestampCall(t) ==
    /\ Begin(t, "getLastSyncTimestamp", "")
    /\ Pending(t, Running("getLastSyncTimestamp", "read", ""),
               Request(t, "getItem", LAST_SYNC, None))

GetLastSyncTimestampSettled(t) ==
    ReadSettled(t, "getLastSyncTimestamp", GetLastSyncTimestampResult(tasks[t].resp[1]))

\* the one request loadInventoryLists makes of the store: it reads the lists
LocalListsRequestClear(t) == Request(t, "clear", INVENTORY_LISTS, None)
LocalListsRequest(t) == Request(t, "getItem", INVENTORY_LISTS, None)

\* loadInventoryLists(), up to the await of storageService.getInventoryLists()
LoadInventoryListsCall(t) ==
    /\ Begin(t, "loadInventoryLists", "")
    /\ Pending(t, Running("loadInventoryLists", "getLists", ""), LocalListsRequest(t))

\* it has localLists and awaits NetInfo.fetch()
LoadInventoryListsLists(t) ==
    /\ UNCHANGED history
    /\ tasks[t].op = "loadInventoryLists"
    /\ tasks[t].pc = "getLists"
    /\ tasks[t].resp # None
    /\ tasks' = [tasks EXCEPT ![t].pc = "netFetch",
                              ![t].lists = GetInventoryListsResult(tasks[t].resp[1]),
                              ![t].resp = None]
    /\ UNCHANGED <<store, currentList, scannedItems, queue, now, recorded, loadedFor,
                   ledgerAt>>

\* it returns localLists, or [] from its catch block when fetch() threw
LoadInventoryListsNet(t) ==
    /\ UNCHANGED history
    /\ tasks[t].op = "loadInventoryLists"
    /\ tasks[t].pc = "netFetch"
    /\ tasks[t].resp # None
    /\ tasks' = [tasks EXCEPT ![t] =
                    [Settle(tasks[t], "returned")
                        EXCEPT !.net = tasks[t].resp[1],
                               !.ret = LoadInventoryListsResult(tasks[t].lists,
                                                                tasks[t].resp[1])]]
    /\ UNCHANGED <<store, currentList, scannedItems, queue, now, recorded, loadedFor,
                   ledgerAt>>

(***************************************************************************)
(* InventoryScreen.handleBarcodeScan(barcode)                              *)
(***************************************************************************)
\* findItemByArticleNumber(barcode): the item of the current list that has the
\* article number, or null
FindItemByArticleNumber(barcode) ==
    IF Accepts(barcode)
    THEN LET items == currentList[1].items
         IN  Some(items[CHOOSE i \in 1..Len(items) : items[i].articleNumber = barcode])
    ELSE None

\* up to the await of findItemByArticleNumber(barcode)
HandleBarcodeScanCall(t, barcode) ==
    /\ Begin(t, "handleBarcodeScan", barcode)
    /\ Accepts(barcode) => Count(screenItems, barcode) < ScanCap(barcode)
    /\ tasks' = [tasks EXCEPT ![t] =
                    [Running("handleBarcodeScan", "findItem", barcode)
                        EXCEPT !.target = CurrentId, !.pre = Snapshot]]
    /\ UNCHANGED <<store, currentList, scannedItems, queue, now, recorded, loadedFor,
                   ledgerAt>>

\* the item is in: setScannedItems adds one to its count in the component's
\* state and it is selected, or the 'Not Found' alert is shown
HandleBarcodeScanItem(t) ==
    /\ tasks[t].op = "handleBarcodeScan"
    /\ tasks[t].pc = "findItem"
    /\ LET item == FindItemByArticleNumber(tasks[t].arg) IN
       IF item # None
       THEN /\ screenItems' = MapSet(screenItems, item[1].articleNumber,
                                     Count(screenItems, item[1].articleNumber) + 1)
            /\ tasks' = [tasks EXCEPT ![t] = [Settle(tasks[t], "selected")
                                                 EXCEPT !.ret = item]]
       ELSE /\ screenItems' = screenItems
            /\ tasks' = [tasks EXCEPT ![t] = Settle(tasks[t], "NotFoundAlert")]
    /\ UNCHANGED <<store, currentList, scannedItems, queue, now, recorded, loadedFor,
                   ledgerAt, overlap, calls, hist, base, faults, network, restored>>

(***************************************************************************)
(* The caller and the process.                                             *)
(***************************************************************************)
\* the caller has the settled promise's outcome
Return(t) ==
    /\ UNCHANGED history
    /\ tasks[t].pc = "done"
    /\ tasks' = [tasks EXCEPT ![t] = Idle]
    /\ ledgerAt' = IF tasks[t].op = "setCurrentList" /\ tasks[t].arg = CurrentId
                   THEN [ledgerAt EXCEPT ![CurrentId] = None]
                   ELSE ledgerAt
    /\ UNCHANGED <<store, currentList, scannedItems, queue, now, recorded, loadedFor>>

\* the process is killed and started again: the service is constructed anew, the
\* calls and the requests not yet carried out are gone, the store stays
Crash ==
    /\ ~Quiet \/ currentList # None
    /\ currentList' = None
    /\ scannedItems' = NewMap
    /\ tasks' = [t \in Slots |-> Idle]
    /\ queue' = <<>>
    /\ loadedFor' = None
    /\ ledgerAt' = [l \in ListIds |-> None]
    /\ hist' = <<>>
    /\ base' = NoSituation
    /\ screenItems' = NewMap
    /\ UNCHANGED <<store, now, recorded, overlap, calls, faults, network, restored>>

(***************************************************************************)
(* Specifications.                                                         *)
(***************************************************************************)
Resume(t) ==
    \/ SetCurrentListLists(t)
    \/ SetCurrentListFind(t)
    \/ SetCurrentListLedger(t)
    \/ ScanItemSaved(t)
    \/ GetMissingItemsSaved(t)
    \/ SyncWithServerNet(t)
    \/ SyncWithServerSaved(t)
    \/ ClearCurrentListDataLedger(t)
    \/ ClearCurrentListDataReport(t)
    \/ Return(t)

\* calls overlap; the store and the probe may fail; the process may die
Init == InitWith(MaxTasks)

Next ==
    \/ \E t \in Slots : \E listId \in CallIds : SetCurrentListCall(t, listId)
    \/ \E t \in Slots : \E barcode \in Barcodes : ScanItemCall(t, barcode)
    \/ \E t \in Slots : GetMissingItemsCall(t)
    \/ \E t \in Slots : SyncWithServerCall(t)
    \/ \E t \in Slots : ClearCurrentListDataCall(t)
    \/ \E t \in Slots : Resume(t)
    \/ \E i \in 1..Len(queue) : StorageDone(i)
    \/ \E i \in 1..Len(queue) : StorageFail(i)
    \/ \E t \in Slots : \E net \in {"connected", "offline", "error"} : NetInfoDone(t, net)
    \/ Tick
    \/ Crash

Spec == Init /\ [][Next]_vars

\* every call is awaited before the next one is made; nothing fails
SeqInit == InitWith(1)

SeqResume(t) ==
    \/ SetCurrentListLists(t)
    \/ SetCurrentListFind(t)
    \/ SetCurrentListLedger(t)
    \/ ScanItemSaved(t)
    \/ GetMissingItemsSaved(t)
    \/ ClearCurrentListDataLedger(t)
    \/ ClearCurrentListDataReport(t)
    \/ Return(t)

SeqNext ==
    \/ \E t \in Slots : \E listId \in CallIds : SetCurrentListCall(t, listId)
    \/ \E t \in Slots : \E barcode \in Barcodes : ScanItemCall(t, barcode)
    \/ \E t \in Slots : GetMissingItemsCall(t)
    \/ \E t \in Slots : ClearCurrentListDataCall(t)
    \/ \E t \in Slots : SeqResume(t)
    \/ \E i \in 1..Len(queue) : StorageDone(i)
    \/ \E t \in Slots : \E net \in {"connected", "offline"} : NetInfoDone(t, net)

SeqSpec == SeqInit /\ [][SeqNext]_vars

\* the continuations of the calls that touch a ledger
LedgerResume(t) ==
    \/ SetCurrentListLists(t)
    \/ SetCurrentListFind(t)
    \/ SetCurrentListLedger(t)
    \/ ScanItemSaved(t)
    \/ ClearCurrentListDataLedger(t)
    \/ ClearCurrentListDataReport(t)
    \/ Return(t)

\* every call is awaited; nothing fails; the process may die at any point
CrashNext ==
    \/ \E t \in Slots : \E listId \in ListIds : SetCurrentListCall(t, listId)
    \/ \E t \in Slots : \E barcode \in Barcodes : ScanItemCall(t, barcode)
    \/ \E t \in Slots : ClearCurrentListDataCall(t)
    \/ \E t \in Slots : LedgerResume(t)
    \/ \E i \in 1..Len(queue) : StorageDone(i)
    \/ \E t \in Slots : \E net \in {"connected", "offline"} : NetInfoDone(t, net)
    \/ Crash

CrashSpec == SeqInit /\ [][CrashNext]_vars

\* every call is awaited; the store and the probe may fail
FaultNext ==
    \/ \E t \in Slots : \E listId \in ListIds : SetCurrentListCall(t, listId)
    \/ \E t \in Slots : \E barcode \in Barcodes : ScanItemCall(t, barcode)
    \/ \E t \in Slots : ClearCurrentListDataCall(t)
    \/ \E t \in Slots : LedgerResume(t)
    \/ \E i \in 1..Len(queue) : StorageDone(i)
    \/ \E i \in 1..Len(queue) : StorageFail(i)
    \/ \E t \in Slots : \E net \in {"connected", "offline", "error"} : NetInfoDone(t, net)

FaultSpec == SeqInit /\ [][FaultNext]_vars

\* calls overlap; nothing fails
RaceNext ==
    \/ \E t \in Slots : \E listId \in ListIds : SetCurrentListCall(t, listId)
    \/ \E t \in Slots : \E barcode \in Barcodes : ScanItemCall(t, barcode)
    \/ \E t \in Slots : ClearCurrentListDataCall(t)
    \/ \E t \in Slots : LedgerResume(t)
    \/ \E i \in 1..Len(queue) : StorageDone(i)
    \/ \E t \in Slots : \E net \in {"connected", "offline"} : NetInfoDone(t, net)

RaceSpec == Init /\ [][RaceNext]_vars

\* the continuations of the calls around a synchronisation
SyncResume(t) ==
    \/ SetCurrentListLists(t)
    \/ SetCurrentListFind(t)
    \/ SetCurrentListLedger(t)
    \/ ScanItemSaved(t)
    \/ SyncWithServerNet(t)
    \/ SyncWithServerSaved(t)
    \/ Return(t)

\* synchronisation among list selection and scans: every call is awaited, time
\* passes, the probe may fail
SyncNext ==
    \/ \E t \in Slots : \E listId \in ListIds : SetCurrentListCall(t, listId)
    \/ \E t \in Slots : \E barcode \in Barcodes : ScanItemCall(t, barcode)
    \/ \E t \in Slots : SyncWithServerCall(t)
    \/ \E t \in Slots : SyncResume(t)
    \/ \E i \in 1..Len(queue) : StorageDone(i)
    \/ \E t \in Slots : \E net \in {"connected", "offline", "error"} : NetInfoDone(t, net)
    \/ Tick

SyncSpec == SeqInit /\ [][SyncNext]_vars

\* the continuations of the calls around a synchronisation and a full reset
StampResume(t) ==
    \/ SetCurrentListLists(t)
    \/ SetCurrentListFind(t)
    \/ SetCurrentListLedger(t)
    \/ ScanItemSaved(t)
    \/ SyncWithServerNet(t)
    \/ SyncWithServerSaved(t)
    \/ ClearAllDataSettled(t)
    \/ Return(t)

\* synchronisation among list selection, scans of the article the lists share
\* and full resets: every call is awaited, time passes, the probe and the write
\* of the timestamp may fail
StampNext ==
    \/ \E t \in Slots : \E listId \in ListIds : SetCurrentListCall(t, listId)
    \/ \E t \in Slots : \E barcode \in {"100"} : ScanItemCall(t, barcode)
    \/ \E t \in Slots : SyncWithServerCall(t)
    \/ \E t \in Slots : ClearAllDataCall(t)
    \/ \E t \in Slots : StampResume(t)
    \/ \E i \in 1..Len(queue) : StorageDone(i)
    \/ \E i \in 1..Len(queue) : queue[i].key = LAST_SYNC /\ StorageFail(i)
    \/ \E t \in Slots : \E net \in {"connected", "offline", "error"} : NetInfoDone(t, net)
    \/ Tick

StampSpec == SeqInit /\ [][StampNext]_vars

\* the continuations of the calls around a restart of the count
ResetResume(t) ==
    \/ SetCurrentListLists(t)
    \/ SetCurrentListFind(t)
    \/ SetCurrentListLedger(t)
    \/ ScanItemSaved(t)
    \/ GetMissingItemsSaved(t)
    \/ SyncWithServerNet(t)
    \/ SyncWithServerSaved(t)
    \/ ClearCurrentListDataLedger(t)
    \/ ClearCurrentListDataReport(t)
    \/ Return(t)

\* restarting a count among list selection, scans of the article the lists
\* share, reports and synchronisation: every call is awaited; nothing fails
ResetNext ==
    \/ \E t \in Slots : \E listId \in ListIds : SetCurrentListCall(t, listId)
    \/ \E t \in Slots : \E barcode \in {"100"} : ScanItemCall(t, barcode)
    \/ \E t \in Slots : GetMissingItemsCall(t)
    \/ \E t \in Slots : SyncWithServerCall(t)
    \/ \E t \in Slots : ClearCurrentListDataCall(t)
    \/ \E t \in Slots : ResetResume(t)
    \/ \E i \in 1..Len(queue) : StorageDone(i)
    \/ \E t \in Slots : \E net \in {"connected", "offline"} : NetInfoDone(t, net)

ResetSpec == SeqInit /\ [][ResetNext]_vars

\* the continuations of the calls around a list selection
SelectResume(t) ==
    \/ SetCurrentListLists(t)
    \/ SetCurrentListFind(t)
    \/ SetCurrentListLedger(t)
    \/ ScanItemSaved(t)
    \/ GetMissingItemsSaved(t)
    \/ ClearAllDataSettled(t)
    \/ Return(t)

\* list selection by stored and unknown ids while the list store is full, emptied
\* by a full reset or unreadable: every call is awaited; the read of the lists
\* and the probe may fail
SelectNext ==
    \/ \E t \in Slots : \E listId \in CallIds : SetCurrentListCall(t, listId)
    \/ \E t \in Slots : \E barcode \in {"100", "999"} : ScanItemCall(t, barcode)
    \/ \E t \in Slots : GetMissingItemsCall(t)
    \/ \E t \in Slots : ClearAllDataCall(t)
    \/ \E t \in Slots : SelectResume(t)
    \/ \E i \in 1..Len(queue) : StorageDone(i)
    \/ \E i \in 1..Len(queue) : queue[i].key = INVENTORY_LISTS /\ StorageFail(i)
    \/ \E t \in Slots : \E net \in {"connected", "offline", "error"} : NetInfoDone(t, net)

SelectSpec == SeqInit /\ [][SelectNext]_vars

\* the continuations of the calls that write the store
SaveResume(t) ==
    \/ SetCurrentListLists(t)
    \/ SetCurrentListFind(t)
    \/ SetCurrentListLedger(t)
    \/ ScanItemSaved(t)
    \/ GetMissingItemsSaved(t)
    \/ ClearCurrentListDataLedger(t)
    \/ ClearCurrentListDataReport(t)
    \/ SaveInventoryListsSettled(t)
    \/ UpdateLastSyncTimestampSettled(t)
    \/ ClearAllDataSettled(t)
    \/ Return(t)

\* the calls that write the store, among them the save methods of
\* StorageService that the service does not await on its own, on list L1: every
\* call is awaited; the store and the probe may fail
SaveNext ==
    \/ \E t \in Slots : \E listId \in {"L1"} : SetCurrentListCall(t, listId)
    \/ \E t \in Slots : \E barcode \in {"100"} : ScanItemCall(t, barcode)
    \/ \E t \in Slots : GetMissingItemsCall(t)
    \/ \E t \in Slots : ClearCurrentListDataCall(t)
    \/ \E t \in Slots : \E lists \in {<<>>, ProvisionedLists} : SaveInventoryListsCall(t, lists)
    \/ \E t \in Slots : UpdateLastSyncTimestampCall(t)
    \/ \E t \in Slots : ClearAllDataCall(t)
    \/ \E t \in Slots : SaveResume(t)
    \/ \E i \in 1..Len(queue) : StorageDone(i)
    \/ \E i \in 1..Len(queue) : StorageFail(i)
    \/ \E t \in Slots : \E net \in {"connected", "offline", "error"} : NetInfoDone(t, net)

SaveSpec == SeqInit /\ [][SaveNext]_vars

\* the continuations of the calls that read the store, and of those that fill it
ReadResume(t) ==
    \/ SetCurrentListLists(t)
    \/ SetCurrentListFind(t)
    \/ SetCurrentListLedger(t)
    \/ ScanItemSaved(t)
    \/ GetMissingItemsSaved(t)
    \/ UpdateLastSyncTimestampSettled(t)
    \/ ClearAllDataSettled(t)
    \/ GetInventoryListsSettled(t)
    \/ GetScannedItemsSettled(t)
    \/ StoredMissingItemsSettled(t)
    \/ GetLastSyncTimestampSettled(t)
    \/ LoadInventoryListsLists(t)
    \/ LoadInventoryListsNet(t)
    \/ Return(t)

\* the get methods of StorageService and loadInventoryLists called directly,
\* over a store that counts on list L1, a timestamp and full resets fill and
\* empty: every call is awaited; the store and the probe may fail
ReadNext ==
    \/ \E t \in Slots : \E listId \in {"L1"} : SetCurrentListCall(t, listId)
    \/ \E t \in Slots : \E barcode \in {"100"} : ScanItemCall(t, barcode)
    \/ \E t \in Slots : GetMissingItemsCall(t)
    \/ \E t \in Slots : UpdateLastSyncTimestampCall(t)
    \/ \E t \in Slots : ClearAllDataCall(t)
    \/ \E t \in Slots : GetInventoryListsCall(t)
    \/ \E t \in Slots : \E listId \in {"L1"} : GetScannedItemsCall(t, listId)
    \/ \E t \in Slots : \E listId \in {"L1"} : StoredMissingItemsCall(t, listId)
    \/ \E t \in Slots : GetLastSyncTimestampCall(t)
    \/ \E t \in Slots : LoadInventoryListsCall(t)
    \/ \E t \in Slots : ReadResume(t)
    \/ \E i \in 1..Len(queue) : StorageDone(i)
    \/ \E i \in 1..Len(queue) : StorageFail(i)
    \/ \E t \in Slots : \E net \in {"connected", "offline", "error"} : NetInfoDone(t, net)

ReadSpec == SeqInit /\ [][ReadNext]_vars

\* a setCurrentList call is in flight
Selecting == \E u \in Slots : tasks[u].op = "setCurrentList" /\ tasks[u].pc # "done"

\* the continuations of list selection and scans
RapidResume(t) ==
    \/ SetCurrentListLists(t)
    \/ SetCurrentListFind(t)
    \/ SetCurrentListLedger(t)
    \/ ScanItemSaved(t)
    \/ Return(t)

\* scans made without waiting for earlier scans; a list is selected while no
\* call is in flight, and no scan is made while a list is being selected;
\* nothing fails
RapidNext ==
    \/ \E t \in Slots : \E listId \in ListIds : Quiet /\ SetCurrentListCall(t, listId)
    \/ \E t \in Slots : \E barcode \in Barcodes : ~Selecting /\ ScanItemCall(t, barcode)
    \/ \E t \in Slots : RapidResume(t)
    \/ \E i \in 1..Len(queue) : StorageDone(i)
    \/ \E t \in Slots : \E net \in {"connected", "offline"} : NetInfoDone(t, net)

RapidSpec == Init /\ [][RapidNext]_vars

\* what NetInfo.fetch() answers on the device as it is
Probe == network

\* the continuations of the calls around a change of connection
AutoResume(t) ==
    \/ SetCurrentListLists(t)
    \/ SetCurrentListFind(t)
    \/ SetCurrentListLedger(t)
    \/ ScanItemSaved(t)
    \/ SyncWithServerNet(t)
    \/ SyncWithServerSaved(t)
    \/ Return(t)

\* the device loses and regains its connection while a list is selected, counted
\* and synchronised on request: every call is awaited; nothing fails
AutoNext ==
    \/ \E t \in Slots : \E listId \in {"L1"} : SetCurrentListCall(t, listId)
    \/ \E t \in Slots : \E barcode \in {"100"} : ScanItemCall(t, barcode)
    \/ \E t \in Slots : SyncWithServerCall(t)
    \/ \E t \in Slots : AutoResume(t)
    \/ \E i \in 1..Len(queue) : StorageDone(i)
    \/ \E t \in Slots : NetInfoDone(t, Probe)
    \/ ConnectivityChange
    \/ Tick

\* a call that was made runs to its end: the event loop resumes a method whose
\* await has settled, and AsyncStorage and NetInfo answer; callers are not
\* obliged to call
AutoFair ==
    /\ \A t \in Slots : WF_vars(AutoResume(t))
    /\ WF_vars(\E i \in 1..Len(queue) : StorageDone(i))
    /\ WF_vars(\E t \in Slots : NetInfoDone(t, Probe))

AutoSpec == SeqInit /\ [][AutoNext]_vars /\ AutoFair

\* a synchronisation on a device whose probe may answer, throw or stay silent:
\* every call is awaited
HangNext ==
    \/ \E t \in Slots : \E listId \in {"L1"} : SetCurrentListCall(t, listId)
    \/ \E t \in Slots : \E barcode \in {"100"} : ScanItemCall(t, barcode)
    \/ \E t \in Slots : SyncWithServerCall(t)
    \/ \E t \in Slots : AutoResume(t)
    \/ \E i \in 1..Len(queue) : StorageDone(i)
    \/ \E t \in Slots : \E net \in {Probe, "error"} : NetInfoDone(t, net)
    \/ ConnectivityChange
    \/ Tick

\* the event loop resumes a method whose await has settled and AsyncStorage
\* answers; nothing obliges NetInfo.fetch() to settle
HangFair ==
    /\ \A t \in Slots : WF_vars(AutoResume(t))
    /\ WF_vars(\E i \in 1..Len(queue) : StorageDone(i))

HangSpec == SeqInit /\ [][HangNext]_vars /\ HangFair

\* the continuations of the calls made around a synchronisation in flight
BusyResume(t) ==
    \/ SetCurrentListLists(t)
    \/ SetCurrentListFind(t)
    \/ SetCurrentListLedger(t)
    \/ ScanItemSaved(t)
    \/ GetMissingItemsSaved(t)
    \/ SyncWithServerNet(t)
    \/ SyncWithServerSaved(t)
    \/ Return(t)

\* a list is selected and the selection awaited; scans, reports and
\* synchronisations are then called without awaiting one another; the device
\* is connected or offline
BusyNext ==
    \/ \E t \in Slots : \E listId \in {"L1"} : Quiet /\ SetCurrentListCall(t, listId)
    \/ \E t \in Slots : \E barcode \in {"100"} : ~Selecting /\ ScanItemCall(t, barcode)
    \/ \E t \in Slots : ~Selecting /\ GetMissingItemsCall(t)
    \/ \E t \in Slots : ~Selecting /\ SyncWithServerCall(t)
    \/ \E t \in Slots : BusyResume(t)
    \/ \E i \in 1..Len(queue) : StorageDone(i)
    \/ \E t \in Slots : \E net \in {"connected", "offline"} : NetInfoDone(t, net)

BusySpec == Init /\ [][BusyNext]_vars

\* the continuations of the calls around a restart of the count during a
\* change of list
SwitchResume(t) ==
    \/ SetCurrentListLists(t)
    \/ SetCurrentListFind(t)
    \/ SetCurrentListLedger(t)
    \/ ScanItemSaved(t)
    \/ ClearCurrentListDataLedger(t)
    \/ ClearCurrentListDataReport(t)
    \/ Return(t)

\* a list, possibly one that is not stored, is selected while a count is
\* restarted: calls overlap; nothing fails
SwitchNext ==
    \/ \E t \in Slots : \E listId \in CallIds : SetCurrentListCall(t, listId)
    \/ \E t \in Slots : \E barcode \in {"100"} : Quiet /\ ScanItemCall(t, barcode)
    \/ \E t \in Slots : ClearCurrentListDataCall(t)
    \/ \E t \in Slots : SwitchResume(t)
    \/ \E i \in 1..Len(queue) : StorageDone(i)
    \/ \E t \in Slots : \E net \in {"connected", "offline"} : NetInfoDone(t, net)

SwitchSpec == Init /\ [][SwitchNext]_vars

Syncing == \E u \in Slots : tasks[u].op = "syncWithServer" /\ tasks[u].pc # "done"

\* the continuations of the calls around a synchronisation during a selection
GateResume(t) ==
    \/ SetCurrentListLists(t)
    \/ SetCurrentListFind(t)
    \/ SetCurrentListLedger(t)
    \/ SyncWithServerNet(t)
    \/ SyncWithServerSaved(t)
    \/ Return(t)

\* synchronisations before, during and after the selection of list L1 or of a
\* list that is not stored: one synchronisation and one selection may be in
\* flight together; the device is connected or offline
GateNext ==
    \/ \E t \in Slots : \E listId \in {"L1", "L9"} : ~Selecting /\ SetCurrentListCall(t, listId)
    \/ \E t \in Slots : ~Syncing /\ SyncWithServerCall(t)
    \/ \E t \in Slots : GateResume(t)
    \/ \E i \in 1..Len(queue) : StorageDone(i)
    \/ \E t \in Slots : \E net \in {"connected", "offline"} : NetInfoDone(t, net)

GateSpec == Init /\ [][GateNext]_vars

\* the continuations of saveScannedItems and getScannedItems
ConvResume(t) ==
    \/ SaveScannedItemsSettled(t)
    \/ GetScannedItemsSettled(t)
    \/ Return(t)

\* saveScannedItems and getScannedItems called directly, every call awaited: a
\* ledger is saved for L1 once the earlier outcomes are collected, and the
\* ledger of L1 or of L2, for which none is ever saved, is read back
ConvNext ==
    \/ \E t \in Slots : \E items \in Ledgers : Quiet /\ SaveScannedItemsCall(t, "L1", items)
    \/ \E t \in Slots : \E listId \in ListIds : Settled /\ GetScannedItemsCall(t, listId)
    \/ \E t \in Slots : ConvResume(t)
    \/ \E i \in 1..Len(queue) : StorageDone(i)

ConvSpec == Init /\ [][ConvNext]_vars

\* the continuations of the calls the inventory screen is part of
ScreenResume(t) ==
    \/ SetCurrentListLists(t)
    \/ SetCurrentListFind(t)
    \/ SetCurrentListLedger(t)
    \/ HandleBarcodeScanItem(t)
    \/ Return(t)

\* a list is selected and barcodes are handed to the inventory screen: every
\* call is awaited; nothing fails; the process may die at any point
ScreenNext ==
    \/ \E t \in Slots : \E listId \in ListIds : SetCurrentListCall(t, listId)
    \/ \E t \in Slots : \E barcode \in Barcodes : HandleBarcodeScanCall(t, barcode)
    \/ \E t \in Slots : ScreenResume(t)
    \/ \E i \in 1..Len(queue) : StorageDone(i)
    \/ \E t \in Slots : \E net \in {"connected", "offline"} : NetInfoDone(t, net)
    \/ Crash

ScreenSpec == SeqInit /\ [][ScreenNext]_vars

(***************************************************************************)
(* The reference the overlapping calls are held against: the same calls    *)
(* run one at a time, each to its end, on the service and the ledgers as   *)
(* mappings.                                                               *)
(***************************************************************************)
ListById(listId) == FindList(ProvisionedLists, listId)[1]

NoCounts == [a \in Barcodes |-> 0]

\* one call run to its end with nothing else in between
SerialStep(s, call) ==
    CASE call[1] = "setCurrentList" ->
            IF call[2] \in ListIds
            THEN [s EXCEPT !.cur = call[2], !.mem = s.disk[call[2]]]
            ELSE [s EXCEPT !.cur = ""]
      [] call[1] = "scanItem" ->
            IF s.cur # "" /\ HasItem(ListById(s.cur), call[2])
            THEN LET mem == [s.mem EXCEPT ![call[2]] = NextCount(@)]
                 IN  [s EXCEPT !.mem = mem, !.disk[s.cur] = mem]
            ELSE s
      [] call[1] = "clearCurrentListData" ->
            IF s.cur # ""
            THEN [s EXCEPT !.mem = NoCounts, !.disk[s.cur] = NoCounts]
            ELSE s
      [] OTHER -> s

RECURSIVE SerialRun(_, _)
SerialRun(s, callSeq) ==
    IF callSeq = <<>> THEN s
    ELSE SerialRun(SerialStep(s, Head(callSeq)), Tail(callSeq))

\* the orders n calls can be run in
Orders(n) == {f \in [1..n -> 1..n] : \A i, j \in 1..n : f[i] = f[j] => i = j}

\* what the calls of hist can leave behind when run one at a time from base
SerialOutcomes ==
    {SerialRun(base, [i \in 1..Len(hist) |-> hist[f[i]]]) : f \in Orders(Len(hist))}

\* the calls made since no call was in flight all work on the list that was
\* current then
SameActiveList ==
    /\ base.cur \in ListIds
    /\ \A i \in 1..Len(hist) : hist[i][1] = "setCurrentList" => hist[i][2] = base.cur

\* a setCurrentList(listId) that was called while another list was current, has
\* assigned currentList and has not loaded the ledger yet
Switching(listId) ==
    \E u \in Slots :
        /\ tasks[u].op = "setCurrentList"
        /\ tasks[u].pc = "getLedger"
        /\ tasks[u].arg = listId
        /\ tasks[u].pre.list # None
        /\ tasks[u].pre.list[1].id # listId

\* a scanItem call that took the branch of a known article
Accepted(t) ==
    /\ tasks[t].op = "scanItem"
    /\ tasks[t].pre.list # None
    /\ HasItem(tasks[t].pre.list[1], tasks[t].arg)

(***************************************************************************)
(* The claims.                                                             *)
(***************************************************************************)
\* C1: with calls made one at a time and nothing failing, a completed scanItem(a)
\* for an article a of the active list returns true and leaves the count of a one
\* higher than it found it, in memory and in the ledger stored under
\* scanned_items_<listId>; after N such calls since the ledger was empty the
\* count is N in both places.
C1_ScanCountsEveryCall ==
    /\ \A t \in Slots :
          (Accepted(t) /\ tasks[t].pc = "done") =>
              /\ tasks[t].result = "true"
              /\ Count(scannedItems, tasks[t].arg)
                    = Count(tasks[t].pre.items, tasks[t].arg) + 1
              /\ Count(SavedItems(tasks[t].target), tasks[t].arg)
                    = Count(tasks[t].pre.items, tasks[t].arg) + 1
              /\ Count(scannedItems, tasks[t].arg)
                    = recorded[tasks[t].target][tasks[t].arg]
    /\ Settled =>
          /\ \A l \in ListIds : Counts(SavedItems(l)) = recorded[l]
          /\ currentList # None => Counts(scannedItems) = recorded[CurrentId]

\* a third scan of article 100 of list L1 has returned true
C1_Witness ==
    \E t \in Slots :
        /\ Accepted(t) /\ tasks[t].pc = "done" /\ tasks[t].result = "true"
        /\ tasks[t].target = "L1" /\ tasks[t].arg = "100"
        /\ recorded["L1"]["100"] = 3
        /\ Count(scannedItems, "100") = 3
        /\ Count(SavedItems("L1"), "100") = 3

\* C2: for every item of the active list, in the list's order, getMissingItems
\* returns scannedQuantity equal to the ledger's count of the item's article (0
\* when the ledger has no entry for it) and missing equal to expectedQuantity
\* minus scannedQuantity, negative when the article was scanned too often.
C2_MissingIsExpectedMinusScanned ==
    \A t \in Slots :
        (tasks[t].op = "getMissingItems" /\ tasks[t].pre.list # None) =>
            LET items == tasks[t].pre.list[1].items
                ret   == tasks[t].ret
            IN  /\ Len(ret) = Len(items)
                /\ \A i \in 1..Len(items) :
                      /\ ret[i].articleNumber = items[i].articleNumber
                      /\ ret[i].expectedQuantity = items[i].expectedQuantity
                      /\ ret[i].scannedQuantity
                            = Count(tasks[t].pre.items, items[i].articleNumber)
                      /\ ret[i].scannedQuantity
                            = recorded[tasks[t].target][items[i].articleNumber]
                      /\ ~MapHas(tasks[t].pre.items, items[i].articleNumber)
                            => ret[i].scannedQuantity = 0
                      /\ ret[i].scannedQuantity >= 0
                      /\ ret[i].missing + ret[i].scannedQuantity
                            = items[i].expectedQuantity

\* getMissingItems has returned an item expected twice and scanned three times,
\* missing -1, next to an item whose counts match, missing 0
C2_Witness ==
    \E t \in Slots :
        /\ tasks[t].op = "getMissingItems" /\ tasks[t].pc = "done"
        /\ tasks[t].result = "returned"
        /\ \E i \in 1..Len(tasks[t].ret) :
              /\ tasks[t].ret[i].expectedQuantity = 2
              /\ tasks[t].ret[i].scannedQuantity = 3
              /\ tasks[t].ret[i].missing = -1
        /\ \E i \in 1..Len(tasks[t].ret) :
              /\ tasks[t].ret[i].scannedQuantity = tasks[t].ret[i].expectedQuantity
              /\ tasks[t].ret[i].missing = 0

\* C3: with calls made one at a time and nothing failing, when setCurrentList(A)
\* completes for a stored list A that was switched away from, the in-memory
\* ledger holds exactly the articles and counts A's ledger held at the switch,
\* whatever was scanned on other lists in between.
C3_SwitchBackRestoresLedger ==
    \A t \in Slots :
        (/\ tasks[t].op = "setCurrentList" /\ tasks[t].pc = "done"
         /\ tasks[t].arg \in ListIds
         /\ ledgerAt[tasks[t].arg] # None) =>
            /\ CurrentId = tasks[t].arg
            /\ MapKeys(scannedItems) = MapKeys(ledgerAt[tasks[t].arg][1])
            /\ Counts(scannedItems) = Counts(ledgerAt[tasks[t].arg][1])

\* L1 was left with both its articles scanned, article 100 was scanned on L2, and
\* setCurrentList(L1) has completed
C3_Witness ==
    \E t \in Slots :
        /\ tasks[t].op = "setCurrentList" /\ tasks[t].pc = "done"
        /\ tasks[t].arg = "L1"
        /\ ledgerAt["L1"] # None
        /\ Count(ledgerAt["L1"][1], "100") = 2
        /\ Count(ledgerAt["L1"][1], "200") = 1
        /\ ledgerAt["L2"] # None
        /\ Count(ledgerAt["L2"][1], "100") = 1
        /\ Count(scannedItems, "100") = 2

\* C4: with calls made one at a time and nothing failing, a getMissingItems that
\* follows a clearCurrentListData on the active list returns scannedQuantity 0 and
\* missing equal to expectedQuantity for every item of the list.
C4_ClearThenMissingIsExpected ==
    \A t \in Slots :
        (/\ tasks[t].op = "getMissingItems"
         /\ tasks[t].pre.list # None
         /\ tasks[t].pre.after = "clearCurrentListData") =>
            /\ Len(tasks[t].ret) = Len(tasks[t].pre.list[1].items)
            /\ \A i \in 1..Len(tasks[t].ret) :
                  /\ tasks[t].ret[i].scannedQuantity = 0
                  /\ tasks[t].ret[i].missing = tasks[t].ret[i].expectedQuantity

\* getMissingItems has returned after a clearCurrentListData that found counts in
\* the ledger of L1
C4_Witness ==
    \E t \in Slots :
        /\ tasks[t].op = "getMissingItems" /\ tasks[t].pc = "done"
        /\ tasks[t].result = "returned"
        /\ tasks[t].pre.after = "clearCurrentListData"
        /\ tasks[t].pre.full
        /\ tasks[t].target = "L1"
        /\ Len(tasks[t].ret) = 2

\* C5: while a setCurrentList(B) that was called with another list current has
\* assigned currentList and has not yet loaded B's ledger into memory, no
\* scanItem call is accepted for B.
C5_NoScanBeforeLedgerLoaded ==
    [][\A t \in Slots : \A barcode \in Barcodes :
          (ScanItemCall(t, barcode) /\ Accepts(barcode)) => ~Switching(CurrentId)]_vars

\* C6: when calls of scanItem, clearCurrentListData and setCurrentList on the
\* same active list were made without awaiting one another and all have
\* completed, the current list, the in-memory ledger and the stored ledgers
\* are what running the same calls one at a time in some order leaves behind.
C6_OverlappingCallsSerialize ==
    (Settled /\ hist # <<>> /\ SameActiveList) => Situation \in SerialOutcomes

\* C7: with scanItem calls made one at a time and the process killed at any
\* point, the stored count of every article is at least the number of scanItem
\* calls for it that returned true, the count reloaded by setCurrentList after
\* the restart is at least that number too, and while a scanItem is in flight
\* the stored ledger is behind the in-memory one by at most that one increment.
C7_CrashLosesAtMostTheScanInFlight ==
    /\ \A l \in ListIds : \A a \in Barcodes :
          Count(SavedItems(l), a) >= recorded[l][a]
    /\ \A t \in Slots :
          (/\ tasks[t].op = "setCurrentList" /\ tasks[t].pc = "done"
           /\ tasks[t].arg \in ListIds) =>
              \A a \in Barcodes : Count(scannedItems, a) >= recorded[tasks[t].arg][a]
    /\ \A t \in Slots :
          (Accepted(t) /\ tasks[t].pc = "saveLedger") =>
              \A a \in Barcodes :
                  Count(SavedItems(tasks[t].target), a)
                      >= Count(scannedItems, a) - (IF a = tasks[t].arg THEN 1 ELSE 0)

\* the process died after the second scan of article 100 of L1 was stored and
\* before it returned; setCurrentList(L1) after the restart has reloaded 2
C7_Witness ==
    \E t \in Slots :
        /\ tasks[t].op = "setCurrentList" /\ tasks[t].pc = "done"
        /\ tasks[t].arg = "L1"
        /\ recorded["L1"]["100"] = 1
        /\ Count(scannedItems, "100") = 2

\* C8: when scanItem or clearCurrentListData ends with the failure of a store
\* write, the in-memory ledger and the stored ledger of the active list are the
\* same as the call found them.
C8_FailedWriteLeavesStateUnchanged ==
    \A t \in Slots :
        (/\ tasks[t].op \in {"scanItem", "clearCurrentListData"}
         /\ tasks[t].pc = "done"
         /\ tasks[t].result = "StorageFailure") =>
            /\ scannedItems = tasks[t].pre.items
            /\ store[ScannedKey(tasks[t].target)] = tasks[t].pre.saved

\* C9: no step lowers the stored count of an article of a list, except the
\* ledger write of clearCurrentListData for that list, which resets it to 0.
C9_StoredCountNeverLowered ==
    [][\A l \in ListIds : \A a \in Barcodes :
          Count(SavedItems(l)', a) < Count(SavedItems(l), a) =>
              /\ Count(SavedItems(l)', a) = 0
              /\ \E i \in 1..Len(queue) :
                    /\ StorageDone(i)
                    /\ queue[i].key = ScannedKey(l)
                    /\ tasks[queue[i].task].op = "clearCurrentListData"]_vars

\* C10: a syncWithServer call leaves the store and the requests to it alone up
\* to the connectivity answer, and on the answer "not connected" it returns
\* false at once, again with the store and the requests to it left alone.
C10_OfflineSyncTouchesNothing ==
    [][\A t \in Slots :
          /\ SyncWithServerCall(t) => (store' = store /\ queue' = queue)
          /\ (SyncWithServerNet(t) /\ tasks[t].resp = Some("offline")) =>
                /\ store' = store
                /\ queue' = queue
                /\ tasks'[t].pc = "done"
                /\ tasks'[t].result = "false"]_vars

\* with a list current and a last_sync stamp of an earlier time in the store, a
\* syncWithServer call has returned false on the answer "not connected"
C10_Witness ==
    \E t \in Slots :
        /\ tasks[t].op = "syncWithServer" /\ tasks[t].pc = "done"
        /\ tasks[t].net = "offline" /\ tasks[t].result = "false"
        /\ currentList # None
        /\ store[LAST_SYNC] # None
        /\ store[LAST_SYNC][1] < now
        /\ store[ScannedKey(CurrentId)] # None

\* C13: with a list current, scanItem(b) for a barcode b that is the
\* articleNumber of no item of the list returns false in the same step, leaves
\* the in-memory ledger as it is and asks nothing of the store.
C13_UnknownBarcodeChangesNothing ==
    [][\A t \in Slots : \A barcode \in Barcodes :
          (/\ ScanItemCall(t, barcode)
           /\ currentList # None
           /\ \A i \in 1..Len(currentList[1].items) :
                 currentList[1].items[i].articleNumber # barcode) =>
              /\ scannedItems' = scannedItems
              /\ store' = store
              /\ queue' = queue
              /\ tasks'[t].pc = "done"
              /\ tasks'[t].result = "false"]_vars

\* scanItem(999) has returned false on list L1 with both articles in the ledger
C13_Witness ==
    \E t \in Slots :
        /\ tasks[t].op = "scanItem" /\ tasks[t].pc = "done"
        /\ tasks[t].arg = "999" /\ tasks[t].result = "false"
        /\ tasks[t].target = "L1"
        /\ Len(tasks[t].pre.items) = 2
        /\ scannedItems = tasks[t].pre.items
        /\ store = tasks[t].pre.store

\* C15: with calls made one at a time and nothing failing, when
\* setCurrentList(id) completes for a stored id the current list is the stored
\* list of that id and the in-memory ledger holds what the store holds under
\* scanned_items_<id>, nothing if nothing was ever saved; when the list of that
\* id was current already, the current list, the counts in memory and the whole
\* store are as the call found them, and the ledger is the very same when the
\* call before was a setCurrentList too.
C15_SetCurrentListLoadsAndIsIdempotent ==
    \A t \in Slots :
        (/\ tasks[t].op = "setCurrentList" /\ tasks[t].pc = "done"
         /\ tasks[t].arg \in ListIds) =>
            LET saved == store[SCANNED_ITEMS \o "_" \o tasks[t].arg]
                pre   == tasks[t].pre
            IN  /\ tasks[t].result = "void"
                /\ currentList # None
                /\ currentList[1].id = tasks[t].arg
                /\ \E i \in 1..Len(ProvisionedLists) : ProvisionedLists[i] = currentList[1]
                /\ saved = None => scannedItems = NewMap
                /\ saved # None =>
                      /\ Len(scannedItems) = Len(saved[1])
                      /\ \A i \in 1..Len(saved[1]) :
                            Count(scannedItems, saved[1][i][1]) = saved[1][i][2]
                /\ (pre.list # None /\ pre.list[1].id = tasks[t].arg) =>
                      /\ currentList = pre.list
                      /\ MapKeys(scannedItems) = MapKeys(pre.items)
                      /\ Counts(scannedItems) = Counts(pre.items)
                      /\ store = pre.store
                      /\ pre.after = "setCurrentList" => scannedItems = pre.items

\* setCurrentList(L1) has completed a second time in a row, with both articles
\* of L1 in the ledger
C15_Witness ==
    \E t \in Slots :
        /\ tasks[t].op = "setCurrentList" /\ tasks[t].pc = "done"
        /\ tasks[t].arg = "L1"
        /\ tasks[t].pre.list # None
        /\ tasks[t].pre.list[1].id = "L1"
        /\ tasks[t].pre.after = "setCurrentList"
        /\ Count(scannedItems, "100") = 2
        /\ Count(scannedItems, "200") = 1

\* C16: with calls made one at a time and nothing failing, a getMissingItems
\* call with a list current returns one entry per item of the list, in the
\* list's order and with the item's own fields, and when it has completed the
\* store holds exactly the returned report under missing_items_<id>, whatever
\* it held there before.
C16_ReportIsPersistedAsReturned ==
    \A t \in Slots :
        (/\ tasks[t].op = "getMissingItems" /\ tasks[t].pc = "done"
         /\ tasks[t].pre.list # None) =>
            LET items == tasks[t].pre.list[1].items
                ret   == tasks[t].ret
            IN  /\ tasks[t].result = "returned"
                /\ Len(ret) = Len(items)
                /\ \A i \in 1..Len(items) :
                      /\ ret[i].articleNumber = items[i].articleNumber
                      /\ ret[i].description = items[i].description
                      /\ ret[i].expectedQuantity = items[i].expectedQuantity
                      /\ ret[i].imagePath = items[i].imagePath
                /\ store[MISSING_ITEMS \o "_" \o tasks[t].pre.list[1].id] = Some(ret)

\* getMissingItems has completed on L1 over an earlier, different report
C16_Witness ==
    \E t \in Slots :
        /\ tasks[t].op = "getMissingItems" /\ tasks[t].pc = "done"
        /\ tasks[t].target = "L1"
        /\ Len(tasks[t].ret) = 2
        /\ tasks[t].pre.store[MissingKey("L1")] # None
        /\ tasks[t].pre.store[MissingKey("L1")] # Some(tasks[t].ret)
        /\ tasks[t].pre.store[MissingKey("L1")][1] # <<>>
        /\ store[MissingKey("L1")] = Some(tasks[t].ret)

\* C18: with no list current, scanItem, getMissingItems and
\* clearCurrentListData return in the same step (false, [] and nothing), ask
\* nothing of the store and leave the in-memory ledger and the absence of a
\* current list as they are.
C18_NoActiveListCallsAreNoOps ==
    [][\A t \in Slots :
          (/\ currentList = None
           /\ \/ \E barcode \in Barcodes : ScanItemCall(t, barcode)
              \/ GetMissingItemsCall(t)
              \/ ClearCurrentListDataCall(t)) =>
              /\ currentList' = None
              /\ scannedItems' = scannedItems
              /\ store' = store
              /\ queue' = queue
              /\ tasks'[t].pc = "done"
              /\ tasks'[t].op = "scanItem" => tasks'[t].result = "false"
              /\ tasks'[t].op = "getMissingItems" =>
                    (tasks'[t].result = "returned" /\ tasks'[t].ret = <<>>)
              /\ tasks'[t].op = "clearCurrentListData" => tasks'[t].result = "void"]_vars

\* clearCurrentListData has returned with no list current, after an unknown id
\* was selected, and the ledger left in memory and the stored one still hold
\* their counts
C18_Witness ==
    \E t \in Slots :
        /\ tasks[t].op = "clearCurrentListData" /\ tasks[t].pc = "done"
        /\ tasks[t].result = "void"
        /\ tasks[t].pre.list = None
        /\ currentList = None
        /\ scannedItems # NewMap
        /\ store[ScannedKey("L1")] # None
        /\ store = tasks[t].pre.store

\* C11: a syncWithServer call always returns true or false; it returns false
\* when the connectivity probe threw and when the write of the timestamp was
\* rejected, and then the store is as the call found it, last_sync included;
\* in every outcome the current list, the in-memory ledger and every stored key
\* other than last_sync (the list definitions, the ledgers, the reports) are as
\* the call found them.
C11_FailedSyncLeavesStateUntouched ==
    /\ [](\A t \in Slots :
            (tasks[t].op = "syncWithServer" /\ tasks[t].pc = "done") =>
                /\ tasks[t].result \in {"true", "false"}
                /\ tasks[t].net = "error" => tasks[t].result = "false"
                /\ tasks[t].result = "false" => store = tasks[t].pre.store
                /\ currentList = tasks[t].pre.list
                /\ scannedItems = tasks[t].pre.items
                /\ \A k \in AllKeys \ {LAST_SYNC} : store[k] = tasks[t].pre.store[k])
    /\ [][\A t \in Slots :
            (/\ tasks[t].op = "syncWithServer"
             /\ tasks[t].pc = "saveStamp"
             /\ tasks[t].resp = Some(Answer(FALSE, None))
             /\ tasks'[t] # tasks[t]) =>
                /\ tasks'[t].pc = "done"
                /\ tasks'[t].result = "false"
                /\ store' = tasks[t].pre.store]_vars

\* a sync on a list with counts, connected, has returned false because the
\* write of the timestamp was rejected; the timestamp of an earlier sync is
\* still stored
C11_Witness ==
    \E t \in Slots :
        /\ tasks[t].op = "syncWithServer" /\ tasks[t].pc = "done"
        /\ tasks[t].result = "false"
        /\ tasks[t].net = "connected"
        /\ tasks[t].pre.list # None
        /\ faults = 1
        /\ now = 1
        /\ store[LAST_SYNC] = Some(0)
        /\ scannedItems # NewMap
        /\ store = tasks[t].pre.store

\* C12: with calls made one at a time, the value stored under last_sync
\* changes only when AsyncStorage carries out the setItem of a syncWithServer
\* call or the clear() of a clearAllData call, and only the latter removes it;
\* a syncWithServer call whose write was carried out returns true; and when a
\* syncWithServer call has returned true a value is stored that is no later
\* than the clock and no earlier than the value the call found.
C12_StampChangesOnlyOnSuccessfulSync ==
    /\ [][store'[LAST_SYNC] # store[LAST_SYNC] =>
            \E i \in 1..Len(queue) :
                /\ StorageDone(i)
                /\ \/ /\ queue[i].op = "setItem"
                      /\ queue[i].key = LAST_SYNC
                      /\ tasks[queue[i].task].op = "syncWithServer"
                      /\ store'[LAST_SYNC] # None
                   \/ /\ queue[i].op = "clear"
                      /\ tasks[queue[i].task].op = "clearAllData"
                      /\ store'[LAST_SYNC] = None]_vars
    /\ [][\A t \in Slots :
            (/\ tasks[t].op = "syncWithServer"
             /\ tasks[t].pc = "saveStamp"
             /\ tasks[t].resp = Some(Answer(TRUE, None))
             /\ tasks'[t] # tasks[t]) =>
                /\ tasks'[t].pc = "done"
                /\ tasks'[t].result = "true"]_vars
    /\ [](\A t \in Slots :
            (/\ tasks[t].op = "syncWithServer" /\ tasks[t].pc = "done"
             /\ tasks[t].result = "true") =>
                /\ store[LAST_SYNC] # None
                /\ store[LAST_SYNC][1] <= now
                /\ tasks[t].pre.store[LAST_SYNC] # None =>
                      store[LAST_SYNC][1] >= tasks[t].pre.store[LAST_SYNC][1])

\* a sync has returned true and the stored timestamp is a later one than the
\* one the call found
C12_Witness ==
    \E t \in Slots :
        /\ tasks[t].op = "syncWithServer" /\ tasks[t].pc = "done"
        /\ tasks[t].result = "true"
        /\ tasks[t].pre.store[LAST_SYNC] = Some(0)
        /\ store[LAST_SYNC] = Some(1)

\* C17: with calls made one at a time and nothing failing, when
\* clearCurrentListData has completed with a list L current, the in-memory
\* ledger is empty, the ledger stored for L is the empty one and the report
\* stored for L is []; the current list is the one the call found and every
\* other stored key (the list definitions, last_sync, the other list's ledger
\* and report) holds what the call found there.
C17_ClearResetsOnlyTheActiveListsData ==
    \A t \in Slots :
        (/\ tasks[t].op = "clearCurrentListData" /\ tasks[t].pc = "done"
         /\ tasks[t].pre.list # None) =>
            LET id == tasks[t].pre.list[1].id IN
            /\ tasks[t].result = "void"
            /\ scannedItems = NewMap
            /\ store[SCANNED_ITEMS \o "_" \o id] = Some(<<>>)
            /\ store[MISSING_ITEMS \o "_" \o id] = Some(<<>>)
            /\ currentList = tasks[t].pre.list
            /\ store[INVENTORY_LISTS] = Some(ProvisionedLists)
            /\ \A k \in AllKeys \ {SCANNED_ITEMS \o "_" \o id, MISSING_ITEMS \o "_" \o id} :
                  store[k] = tasks[t].pre.store[k]

\* clearCurrentListData has completed on L1, which had counts in memory and a
\* stored report with entries, after a sync and with counts stored for L2
C17_Witness ==
    \E t \in Slots :
        /\ tasks[t].op = "clearCurrentListData" /\ tasks[t].pc = "done"
        /\ tasks[t].target = "L1"
        /\ tasks[t].pre.items # NewMap
        /\ tasks[t].pre.store[MissingKey("L1")] # None
        /\ tasks[t].pre.store[MissingKey("L1")] # Some(<<>>)
        /\ store[LAST_SYNC] # None
        /\ store[ScannedKey("L2")] # None
        /\ store[ScannedKey("L2")] # Some(<<>>)
        /\ store[MissingKey("L1")] = Some(<<>>)

\* C14: with calls made one at a time, a setCurrentList(id) call never
\* throws, and it leaves no list current when no stored list has that id (the
\* unknown id, the emptied list store) and when the read of the list store
\* failed, whatever list was current before; with no list current scanItem
\* then returns false for the barcode it is given and getMissingItems returns
\* [].
C14_UnknownListEndsInNoActiveList ==
    /\ [](\A t \in Slots :
            /\ (tasks[t].op = "setCurrentList" /\ tasks[t].pc = "done") =>
                  LET stored == IF store[INVENTORY_LISTS] = None THEN <<>>
                                ELSE store[INVENTORY_LISTS][1]
                  IN  /\ tasks[t].result = "void"
                      /\ (\A i \in 1..Len(stored) : stored[i].id # tasks[t].arg) =>
                            currentList = None
                      /\ tasks[t].lists = <<>> => currentList = None
            /\ (/\ tasks[t].op = "scanItem" /\ tasks[t].pc = "done"
                /\ tasks[t].pre.list = None) => tasks[t].result = "false"
            /\ (/\ tasks[t].op = "getMissingItems" /\ tasks[t].pc = "done"
                /\ tasks[t].pre.list = None) =>
                  (tasks[t].result = "returned" /\ tasks[t].ret = <<>>))
    /\ [][\A t \in Slots :
            (/\ tasks[t].op = "setCurrentList"
             /\ tasks[t].pc = "getLists"
             /\ tasks[t].resp = Some(Answer(FALSE, None))
             /\ tasks'[t] # tasks[t]) => tasks'[t].lists = <<>>]_vars

\* setCurrentList(L1) has completed while L2 was current and the read of the
\* stored lists failed: no list is current although L1 is stored
C14_Witness ==
    \E t \in Slots :
        /\ tasks[t].op = "setCurrentList" /\ tasks[t].pc = "done"
        /\ tasks[t].arg = "L1"
        /\ tasks[t].result = "void"
        /\ tasks[t].pre.list # None
        /\ tasks[t].pre.list[1].id = "L2"
        /\ tasks[t].lists = <<>>
        /\ store[INVENTORY_LISTS] = Some(ProvisionedLists)
        /\ currentList = None

\* C19: with calls made one at a time, a call of saveInventoryLists,
\* updateLastSyncTimestamp, clearAllData, scanItem, getMissingItems or
\* clearCurrentListData whose write was rejected (saveScannedItems and
\* saveMissingItems are the writes of the last three) rejects with that
\* failure; and when one of them has completed normally (void, true, a report)
\* the store holds what it was to write.
C19_FailedSaveIsNeverSwallowed ==
    /\ [][\A t \in Slots :
            (/\ tasks[t].op \in {"saveInventoryLists", "updateLastSyncTimestamp",
                                 "clearAllData", "scanItem", "getMissingItems",
                                 "clearCurrentListData"}
             /\ tasks[t].pc \in {"write", "saveLedger", "saveReport"}
             /\ tasks[t].resp = Some(Answer(FALSE, None))
             /\ tasks'[t] # tasks[t]) =>
                /\ tasks'[t].pc = "done"
                /\ tasks'[t].result = "StorageFailure"]_vars
    /\ [](\A t \in Slots :
            tasks[t].pc = "done" =>
                /\ (tasks[t].op = "saveInventoryLists" /\ tasks[t].result = "void") =>
                      store[INVENTORY_LISTS] = Some(tasks[t].lists)
                /\ (tasks[t].op = "updateLastSyncTimestamp" /\ tasks[t].result = "void") =>
                      store[LAST_SYNC] = tasks[t].ret
                /\ (tasks[t].op = "clearAllData" /\ tasks[t].result = "void") =>
                      \A k \in AllKeys : store[k] = None
                /\ (tasks[t].op = "scanItem" /\ tasks[t].result = "true") =>
                      LET saved == store[SCANNED_ITEMS \o "_" \o tasks[t].target]
                      IN  /\ saved # None
                          /\ Len(saved[1]) = Len(scannedItems)
                          /\ \A i \in 1..Len(saved[1]) :
                                Count(scannedItems, saved[1][i][1]) = saved[1][i][2]
                          /\ Count(scannedItems, tasks[t].arg) =
                                Count(tasks[t].pre.items, tasks[t].arg) + 1
                /\ (/\ tasks[t].op = "getMissingItems" /\ tasks[t].result = "returned"
                    /\ tasks[t].pre.list # None) =>
                      store[MISSING_ITEMS \o "_" \o tasks[t].target] = Some(tasks[t].ret)
                /\ (/\ tasks[t].op = "clearCurrentListData" /\ tasks[t].result = "void"
                    /\ tasks[t].pre.list # None) =>
                      /\ store[SCANNED_ITEMS \o "_" \o tasks[t].target] = Some(<<>>)
                      /\ store[MISSING_ITEMS \o "_" \o tasks[t].target] = Some(<<>>))

\* clearAllData has rejected because clear() was rejected, and the ledger and
\* the report of L1 are still stored
C19_Witness ==
    \E t \in Slots :
        /\ tasks[t].op = "clearAllData" /\ tasks[t].pc = "done"
        /\ tasks[t].result = "StorageFailure"
        /\ faults = 1
        /\ store[ScannedKey("L1")] # None
        /\ store[MissingKey("L1")] # None
        /\ store = tasks[t].pre.store

\* C20: with calls made one at a time, getInventoryLists, getScannedItems,
\* StorageService.getMissingItems, getLastSyncTimestamp and loadInventoryLists
\* always return; when the read was rejected (or the text did not parse) and
\* when the key is absent they return [], an empty ledger, [] and null, and
\* loadInventoryLists returns [] also when the connectivity probe threw.
C20_NoReadPathPropagatesAFault ==
    /\ [](\A t \in Slots :
            (/\ tasks[t].op \in {"getInventoryLists", "getScannedItems",
                                 "storedMissingItems", "getLastSyncTimestamp",
                                 "loadInventoryLists"}
             /\ tasks[t].pc = "done") => tasks[t].result = "returned")
    /\ [][\A t \in Slots :
            /\ (/\ tasks[t].pc = "read"
                /\ tasks[t].resp # None
                /\ ~tasks[t].resp[1].ok \/ tasks[t].resp[1].val = None
                /\ tasks'[t] # tasks[t]) =>
                  /\ tasks'[t].pc = "done"
                  /\ tasks'[t].result = "returned"
                  /\ tasks[t].op = "getInventoryLists" => tasks'[t].ret = <<>>
                  /\ tasks[t].op = "getScannedItems" => tasks'[t].ret = NewMap
                  /\ tasks[t].op = "storedMissingItems" => tasks'[t].ret = <<>>
                  /\ tasks[t].op = "getLastSyncTimestamp" => tasks'[t].ret = None
            /\ (/\ tasks[t].op = "loadInventoryLists"
                /\ tasks[t].pc = "getLists"
                /\ tasks[t].resp # None
                /\ ~tasks[t].resp[1].ok \/ tasks[t].resp[1].val = None
                /\ tasks'[t] # tasks[t]) =>
                  /\ tasks'[t].pc = "netFetch"
                  /\ tasks'[t].lists = <<>>
            /\ (/\ tasks[t].op = "loadInventoryLists"
                /\ tasks[t].pc = "netFetch"
                /\ tasks[t].resp # None
                /\ tasks[t].resp[1] = "error" \/ tasks[t].lists = <<>>
                /\ tasks'[t] # tasks[t]) =>
                  /\ tasks'[t].pc = "done"
                  /\ tasks'[t].result = "returned"
                  /\ tasks'[t].ret = <<>>]_vars

\* getLastSyncTimestamp has returned null because the read was rejected, while
\* a timestamp, a ledger and a report are stored
C20_Witness ==
    \E t \in Slots :
        /\ tasks[t].op = "getLastSyncTimestamp" /\ tasks[t].pc = "done"
        /\ tasks[t].result = "returned"
        /\ tasks[t].ret = None
        /\ faults = 1
        /\ store[LAST_SYNC] # None
        /\ store[ScannedKey("L1")] # None
        /\ store[MissingKey("L1")] # None

\* C21: when every call made since no call was in flight is a scanItem call on
\* the current list, some of them made while earlier ones had not finished,
\* then once all of them have completed the count of each article in memory
\* and the count stored for it have each grown by the number of those calls
\* that were for it.
C21_RapidScansAreAllCounted ==
    (/\ Settled
     /\ hist # <<>>
     /\ \A i \in 1..Len(hist) : hist[i][1] = "scanItem"
     /\ currentList # None) =>
        LET id == currentList[1].id
            items == currentList[1].items
        IN  \A j \in 1..Len(items) :
                LET a == items[j].articleNumber
                    n == Cardinality({i \in 1..Len(hist) : hist[i][2] = a})
                IN  /\ Count(scannedItems, a) = base.mem[a] + n
                    /\ Counts(SavedItems(id))[a] = base.disk[id][a] + n

\* two scans of article 100 on L1 have completed, the second called before
\* the write of the first was carried out; memory and store hold 2
C21_Witness ==
    /\ Settled
    /\ Len(hist) = 2
    /\ \A i \in 1..2 : hist[i][1] = "scanItem" /\ hist[i][2] = "100"
    /\ tasks[1].op = "scanItem" /\ tasks[2].op = "scanItem"
    /\ tasks[1].result = "true" /\ tasks[2].result = "true"
    /\ tasks[1].target = "L1"
    /\ Count(tasks[2].pre.items, "100") = Count(tasks[1].pre.items, "100") + 1
    /\ tasks[2].pre.store = tasks[1].pre.store
    /\ Count(scannedItems, "100") = base.mem["100"] + 2
    /\ Counts(SavedItems("L1"))["100"] = base.disk["L1"]["100"] + 2

\* C22: the report stored for a list is replaced only by a step of a
\* getMissingItems or clearCurrentListData call made on that list; when a
\* scanItem, setCurrentList or syncWithServer call has completed every stored
\* report is as the call found it; and a getMissingItems call made right after
\* another one on the same list returns the report the first one stored.
C22_ReportsChangeOnlyByReportAndClear ==
    /\ [][\A l \in ListIds :
            store'[MissingKey(l)] # store[MissingKey(l)] =>
                \E t \in Slots :
                    /\ tasks[t].op \in {"getMissingItems", "clearCurrentListData"}
                    /\ tasks[t].pc # "done"
                    /\ tasks[t].target = l]_vars
    /\ [](\A t \in Slots :
            (/\ tasks[t].op \in {"scanItem", "setCurrentList", "syncWithServer"}
             /\ tasks[t].pc = "done") =>
                \A l \in ListIds :
                    store[MissingKey(l)] = tasks[t].pre.store[MissingKey(l)])
    /\ [](\A t \in Slots :
            (/\ tasks[t].op = "getMissingItems"
             /\ tasks[t].pc = "done"
             /\ tasks[t].pre.list # None
             /\ tasks[t].pre.after = "getMissingItems") =>
                /\ tasks[t].pre.store[MissingKey(tasks[t].target)] # None
                /\ tasks[t].ret = tasks[t].pre.store[MissingKey(tasks[t].target)][1])

\* a second report on L2 right after a first one returned the same rows, which
\* name a missing article, while L1's stored report is another one
C22_Witness ==
    \E t \in Slots :
        /\ tasks[t].op = "getMissingItems"
        /\ tasks[t].pc = "done"
        /\ tasks[t].target = "L2"
        /\ tasks[t].pre.after = "getMissingItems"
        /\ tasks[t].ret # <<>>
        /\ tasks[t].pre.store[MissingKey("L2")] = Some(tasks[t].ret)
        /\ store[MissingKey("L2")] = Some(tasks[t].ret)
        /\ store[MissingKey("L1")] # None
        /\ store[MissingKey("L1")] # store[MissingKey("L2")]

\* C23: a loadInventoryLists call, whether the probe says connected, says
\* offline or throws, leaves every stored ledger, every stored report and the
\* in-memory ledger as it found them, at each of its steps and when it is done.
C23_LoadInventoryListsChangesNoCounts ==
    /\ [][(\E t \in Slots : tasks[t].op = "loadInventoryLists" /\ tasks[t].pc # "done") =>
            /\ scannedItems' = scannedItems
            /\ \A l \in ListIds : /\ store'[ScannedKey(l)] = store[ScannedKey(l)]
                                   /\ store'[MissingKey(l)] = store[MissingKey(l)]]_vars
    /\ [](\A t \in Slots :
            (tasks[t].op = "loadInventoryLists" /\ tasks[t].pc = "done") =>
                /\ scannedItems = tasks[t].pre.items
                /\ \A l \in ListIds :
                      /\ store[ScannedKey(l)] = tasks[t].pre.store[ScannedKey(l)]
                      /\ store[MissingKey(l)] = tasks[t].pre.store[MissingKey(l)])

\* loadInventoryLists has returned the lists with the device connected, over a
\* stored ledger and a stored report of L1 and counts in memory
C23_Witness ==
    \E t \in Slots :
        /\ tasks[t].op = "loadInventoryLists"
        /\ tasks[t].pc = "done"
        /\ tasks[t].net = "connected"
        /\ tasks[t].ret = ProvisionedLists
        /\ Count(scannedItems, "100") > 0
        /\ Counts(SavedItems("L1"))["100"] > 0
        /\ store[MissingKey("L1")] # None

\* C24: a setCurrentList call that has completed leaving no list current has
\* an outcome other than the one of a call that made a list current.
C24_ListNotFoundIsReported ==
    \A t \in Slots :
        (/\ tasks[t].op = "setCurrentList"
         /\ tasks[t].pc = "done"
         /\ currentList = None) =>
            <<tasks[t].result, tasks[t].ret>> # <<"void", None>>

\* C25: once the connection has come back while a list is current, a
\* syncWithServer call is eventually in progress though no caller asked for one.
C25_ReconnectLeadsToSync ==
    restored ~> (\E t \in Slots : tasks[t].op = "syncWithServer")

\* C26: a syncWithServer call that has been made eventually has an outcome
\* for its caller, also when the probe never answers.
C26_SyncAlwaysReturns ==
    \A t \in Slots :
        (tasks[t].op = "syncWithServer" /\ tasks[t].pc # "done")
            ~> (tasks[t].op = "syncWithServer" /\ tasks[t].pc = "done")

\* C27: a request of a scanItem or getMissingItems call is never kept waiting
\* by a syncWithServer call: it can be carried out unless an earlier request on
\* its own key, not one of a synchronisation, is still to be carried out; a
\* scan of an article of the current list made among synchronisations returns
\* true; and once the calls made since no call was in flight, all of them
\* scans, reports and synchronisations, have completed, whatever the
\* synchronisations returned, the count in memory and the stored count of each
\* article have grown by the number of scans made for it.
C27_ScansDoNotWaitForSync ==
    /\ \A i \in 1..Len(queue) :
          tasks[queue[i].task].op \in {"scanItem", "getMissingItems"} =>
              \/ Oldest(i)
              \/ \E j \in 1..(i - 1) :
                    /\ queue[j].key = queue[i].key
                    /\ tasks[queue[j].task].op # "syncWithServer"
    /\ \A t \in Slots :
          (/\ tasks[t].op = "scanItem"
           /\ tasks[t].pc = "done"
           /\ tasks[t].pre.list # None
           /\ HasItem(tasks[t].pre.list[1], tasks[t].arg)) =>
              tasks[t].result = "true"
    /\ (/\ Settled
        /\ hist # <<>>
        /\ \A i \in 1..Len(hist) :
              hist[i][1] \in {"scanItem", "getMissingItems", "syncWithServer"}
        /\ currentList # None) =>
           LET id == currentList[1].id
               items == currentList[1].items
           IN  \A j \in 1..Len(items) :
                   LET a == items[j].articleNumber
                       n == Cardinality({i \in 1..Len(hist) :
                                            hist[i][1] = "scanItem" /\ hist[i][2] = a})
                   IN  /\ Count(scannedItems, a) = base.mem[a] + n
                       /\ Counts(SavedItems(id))[a] = base.disk[id][a] + n

\* a scan called after a synchronisation was called has returned true and its
\* count is stored while the synchronisation still waits for the probe
C27_Witness ==
    \E t, u \in Slots :
        /\ tasks[u].op = "syncWithServer"
        /\ tasks[u].pc = "netFetch"
        /\ tasks[u].resp = None
        /\ tasks[t].op = "scanItem"
        /\ tasks[t].pc = "done"
        /\ tasks[t].result = "true"
        /\ hist = <<<<"syncWithServer", "", FALSE>>, <<"scanItem", "100", FALSE>>>>
        /\ Count(scannedItems, "100") = 1
        /\ store[ScannedKey("L1")] = Some(ScannedItemsText(scannedItems))

\* C28: when handleBarcodeScan has accepted a barcode as an item of the
\* current list, the count stored for that article in the list's ledger is one
\* more than the call found it, and it is the count the screen shows.
C28_AcceptedScanIsPersisted ==
    \A t \in Slots :
        (/\ tasks[t].op = "handleBarcodeScan"
         /\ tasks[t].pc = "done"
         /\ tasks[t].result = "selected") =>
            LET a == tasks[t].arg
                l == tasks[t].target
                before == GetScannedItemsResult(
                              Answer(TRUE, tasks[t].pre.store[ScannedKey(l)]))
            IN  /\ Counts(SavedItems(l))[a] = Count(before, a) + 1
                /\ Counts(SavedItems(l))[a] = Count(screenItems, a)

\* C29: when no call is in flight, the count stored for an article under a
\* list's id is at most the number of scans of that article accepted while
\* that list was the current one since its data was last cleared: no list's
\* stored ledger holds counts that were made for another list.
C29_LedgersAreIsolatedPerList ==
    Settled =>
        \A l \in ListIds : \A a \in Barcodes :
            Counts(SavedItems(l))[a] <= recorded[l][a]

\* C30: a getScannedItems(listId) call made after an awaited
\* saveScannedItems(listId, m), with no other save between the two, returns a
\* Map with exactly the keys and counts of m; a getScannedItems call for an id
\* under which nothing is stored returns the empty Map.
C30_SavedLedgerReadsBackEqual ==
    /\ (/\ tasks[1].op = "saveScannedItems"
        /\ tasks[1].pc = "done"
        /\ tasks[2].op = "getScannedItems"
        /\ tasks[2].pc = "done"
        /\ tasks[2].arg = tasks[1].arg) =>
           /\ tasks[1].result = "void"
           /\ tasks[2].result = "returned"
           /\ Entries(tasks[2].ret) = Entries(tasks[1].lists)
           /\ Len(tasks[2].ret) = Len(tasks[1].lists)
    /\ \A t \in Slots :
          (/\ tasks[t].op = "getScannedItems"
           /\ tasks[t].pc = "done"
           /\ tasks[t].pre.store[ScannedKey(tasks[t].arg)] = None) =>
              tasks[t].ret = NewMap

\* the ledger abc -> 1, 200 -> 0, 100 -> 1 was saved for L1 and read back with
\* the same keys and counts, in another order
C30_Witness ==
    /\ tasks[1].op = "saveScannedItems"
    /\ tasks[1].pc = "done"
    /\ tasks[1].lists = <<<<"abc", 1>>, <<"200", 0>>, <<"100", 1>>>>
    /\ tasks[2].op = "getScannedItems"
    /\ tasks[2].pc = "done"
    /\ tasks[2].arg = "L1"
    /\ tasks[2].ret = <<<<"100", 1>>, <<"200", 0>>, <<"abc", 1>>>>

\* C31: when no call is in flight (and no write has failed), either no list
\* is current or the in-memory ledger holds, for every article, the count
\* stored under the current list's id.
C31_MemoryLedgerEqualsStoredLedger ==
    (Settled /\ faults = 0) =>
        \/ currentList = None
        \/ Counts(scannedItems) = Counts(SavedItems(CurrentId))

\* C32: every write a clearCurrentListData call requests is to the ledger or
\* the report of the list that was current when the call began, and the call
\* ends with nothing or a storage failure for its caller.
C32_ClearWritesOneListAndOnlyFailsOnStorage ==
    /\ \A i \in 1..Len(queue) :
          tasks[queue[i].task].op = "clearCurrentListData" =>
              queue[i].key \in {ScannedKey(tasks[queue[i].task].target),
                                MissingKey(tasks[queue[i].task].target)}
    /\ \A t \in Slots :
          (tasks[t].op = "clearCurrentListData" /\ tasks[t].pc = "done") =>
              tasks[t].result \in {"void", "StorageFailure"}

\* the article numbers of the items of a list
ArticlesOf(list) == {list.items[i].articleNumber : i \in 1..Len(list.items)}

\* the stored list with an id, or None
StoredList(listId) ==
    FindList(GetInventoryListsResult(Answer(TRUE, store[INVENTORY_LISTS])), listId)

\* C33: every key of the ledger stored under a list's id is the article number
\* of an item of the stored list with that id, and while a list is current
\* every key of the in-memory ledger is the article number of one of its items.
C33_LedgerKeysAreArticlesOfTheList ==
    /\ \A l \in ListIds :
          StoredList(l) # None =>
              MapKeys(SavedItems(l)) \subseteq ArticlesOf(StoredList(l)[1])
    /\ currentList # None => MapKeys(scannedItems) \subseteq ArticlesOf(currentList[1])

\* C34: the step of a syncWithServer call that follows the probe's answer goes
\* on to write the timestamp exactly when the answer is "connected" and a list
\* is current at that step; otherwise the call returns false at that step with
\* the store and the requests to it left alone.  A call returns true only once
\* its write of the timestamp has settled.  A call made with no list current
\* and no other call made since none was in flight has, on the answer
\* "connected", returned false and left last_sync as it found it.
C34_SyncNeedsAnActiveList ==
    /\ [][\A t \in Slots :
            (/\ tasks[t].op = "syncWithServer"
             /\ tasks[t].pc = "netFetch"
             /\ tasks'[t].op = "syncWithServer"
             /\ tasks'[t].pc # "netFetch") =>
                IF tasks[t].resp = Some("connected") /\ currentList # None
                THEN /\ tasks'[t].pc = "saveStamp"
                     /\ Len(queue') = Len(queue) + 1
                     /\ queue'[Len(queue')].key = LAST_SYNC
                ELSE /\ tasks'[t].pc = "done"
                     /\ tasks'[t].result = "false"
                     /\ queue' = queue
                     /\ store' = store]_vars
    /\ [][\A t \in Slots :
            (/\ tasks'[t].op = "syncWithServer"
             /\ tasks'[t].result = "true"
             /\ tasks[t].result # "true") =>
                tasks[t].op = "syncWithServer" /\ tasks[t].pc = "saveStamp"]_vars
    /\ [](\A t \in Slots :
            (/\ tasks[t].op = "syncWithServer"
             /\ tasks[t].pc = "done"
             /\ tasks[t].net = "connected"
             /\ tasks[t].pre.list = None
             /\ Len(hist) = 1) =>
                /\ tasks[t].result = "false"
                /\ store[LAST_SYNC] = tasks[t].pre.store[LAST_SYNC])

\* a synchronisation called while L1 was current has returned false on the
\* answer "connected", a selection of an unknown list having left no list
\* current before the answer came; nothing is stored under last_sync
C34_Witness ==
    \E t, u \in Slots :
        /\ tasks[t].op = "syncWithServer"
        /\ tasks[t].pc = "done"
        /\ tasks[t].net = "connected"
        /\ tasks[t].result = "false"
        /\ tasks[t].pre.list # None
        /\ tasks[u].op = "setCurrentList"
        /\ tasks[u].arg = "L9"
        /\ currentList = None
        /\ store[LAST_SYNC] = None

\* C35: a scanItem call that returned true was made for a list that was among
\* the stored lists when it was made, and when nothing was stored under the
\* list's ledger key at that time, as after a completed clearAllData, the
\* ledger stored when the call has completed holds that one scan and nothing
\* else.
C35_ResetCountsDoNotReappear ==
    \A t \in Slots :
        (/\ tasks[t].op = "scanItem"
         /\ tasks[t].pc = "done"
         /\ tasks[t].result = "true") =>
            /\ FindList(GetInventoryListsResult(
                            Answer(TRUE, tasks[t].pre.store[INVENTORY_LISTS])),
                        tasks[t].target) # None
            /\ tasks[t].pre.store[ScannedKey(tasks[t].target)] = None =>
                  SavedItems(tasks[t].target) = <<<<tasks[t].arg, 1>>>>

====
